---------------------------- MODULE Spec2Model ----------------------------
(***************************************************************************)
(* A model of the taxitrack passenger-counting core:                       *)
(*   - Trip                (src/src/trip_management/models.py)             *)
(*   - ZoneDetector        (src/src/computer_vision/zone_detector.py)      *)
(*   - FaceTracker         (src/src/face_tracking/face_tracker.py)         *)
(*   - AntiFraudManager    (src/src/face_tracking/anti_fraud_manager.py)   *)
(*   - PassengerCounter    (src/src/computer_vision/passenger_counter.py)  *)
(*   - CameraStream        (src/src/computer_vision/camera_stream.py)      *)
(* Each component has its own specifications (SpecTrip, SpecZone,          *)
(* SpecFusion, SpecCamera, SpecStop, ...); the variables of the other      *)
(* components stay unchanged.                                              *)
(***************************************************************************)
EXTENDS Integers, Sequences, FiniteSets, TLC

VARIABLES
    now,                \* the wall clock read by datetime.now(), in seconds
    trip,               \* the Trip object (a record of its fields)
    calls,              \* history: the update_passenger_count calls made so far,
                        \* each with the count supplied and is_overloaded before it
    entry_zone,         \* ZoneDetector.entry_zone.coordinates, in tenths
    exit_zone,          \* ZoneDetector.exit_zone.coordinates, in tenths
    person_zones,       \* ZoneDetector.person_zones: track index -> zone history
    zone_events,        \* the zone events of the frame being processed
    enabled,            \* FaceTracker.enabled (FACE_RECOGNITION_AVAILABLE)
    last_detection_time,\* FaceTracker.last_detection_time
    tracked_faces,      \* FaceTracker.tracked_faces: face id -> TrackedFace
    next_face_id,       \* FaceTracker.next_face_id
    face_detections,    \* the face detections of the frame being processed
    passenger_records,  \* AntiFraudManager.passenger_records: face id -> record
    fraud_stats,        \* AntiFraudManager.stats
    validated_events,   \* the validated events of the frame being processed
    current_count,      \* PassengerCounter.current_count
    stats,              \* PassengerCounter.stats
    passenger_events,   \* PassengerCounter.passenger_events
    cycles,             \* history: the number of frames processed so far
    enrolled,           \* history: face id -> the encoding the identity was created from
    camera_is_running,  \* CameraStream.is_running
    frame_queue,        \* CameraStream.frame_queue, frames as their capture numbers
    frame_count,        \* CameraStream.frame_count; the frame held by the capture loop
    capture_pc,         \* where the capture thread is in _capture_frames
    last_delivered,     \* history: the last frame a get_frame call returned
    lost,               \* history: the frames captured and never put in the queue
    is_running,         \* PassengerCounter.is_running
    processing_pc,      \* where the processing thread is in _processing_loop
    frame_counter,      \* PassengerCounter.frame_counter
    event_index,        \* the position of "for event in zone_events"
    callback_index,     \* the position of "for callback in self.event_callbacks"
    callback_log,       \* history: the callback invocations made so far
    emitted,            \* history: the zone events the processing loop received
    event_callbacks,    \* PassengerCounter.event_callbacks
    stop_pc,            \* where the caller of PassengerCounter.stop() is
    presented,          \* history: the last presentation-layer call, the position
                        \* of the processing thread at that moment, what it returned
    none_frames,        \* the frames whose value is None: cap.read() returned
                        \* (False, None) for them
    processing_threads  \* the threads PassengerCounter.start() created, each
                        \* with its position in _processing_loop

trip_vars == <<trip, calls>>

zone_vars == <<entry_zone, exit_zone, person_zones, zone_events>>

tracker_vars == <<enabled, last_detection_time, tracked_faces, next_face_id>>

fraud_vars == <<face_detections, passenger_records, fraud_stats, validated_events>>

counter_vars == <<current_count, stats, passenger_events>>

fusion_vars == <<tracker_vars, fraud_vars, counter_vars, cycles, enrolled>>

camera_vars == <<camera_is_running, frame_queue, frame_count, capture_pc,
                 last_delivered, lost, none_frames>>

loop_vars == <<is_running, processing_pc, frame_counter, event_index, callback_index,
               callback_log, emitted, processing_threads>>

thread_vars == <<camera_vars, loop_vars, event_callbacks, stop_pc, presented>>

\* what no thread of the counter writes
static_vars == <<now, trip_vars, entry_zone, exit_zone, tracker_vars, fraud_vars,
                 cycles, enrolled>>

vars == <<now, trip, calls, entry_zone, exit_zone, person_zones, zone_events,
          enabled, last_detection_time, tracked_faces, next_face_id,
          face_detections, passenger_records, fraud_stats, validated_events,
          current_count, stats, passenger_events, cycles, enrolled,
          camera_is_running, frame_queue, frame_count, capture_pc, last_delivered,
          lost, is_running, processing_pc, frame_counter, event_index,
          callback_index, callback_log, emitted, event_callbacks, stop_pc,
          presented, none_frames, processing_threads>>

(***************************************************************************)
(* Bounds of the model.                                                    *)
(***************************************************************************)
MaxClock == 1           \* the clock of the Trip specification stops here
MaxCalls == 6           \* update_passenger_count calls explored in SpecTripCounts
MaxTripCalls == 3       \* update_passenger_count calls explored in SpecTrip
MaxLog == 2             \* add_event stops when the event log has this length
MaxDetections == 2      \* person detections in one frame
MaxHistory == 4         \* frames explored per track before the track must end
MaxCycles == 3          \* frames processed by the fusion pipeline
MaxFrames == 12         \* frames in which one track is followed
MaxCaptured == 12       \* frames captured when the camera runs alone
MaxHandled == 102       \* zone events handled when the handler runs alone
MaxThreads == 3         \* processing threads created by start() calls
MaxExits == 1           \* exit events among them
MaxStreamed == 6        \* frames captured when the processing loop runs
MaxCallbacks == 2       \* registered event callbacks

\* Optional[...] fields that are None hold this value (times are >= 0)
None == 0 - 1

Max(a, b) == IF a >= b THEN a ELSE b

(***************************************************************************)
(* Trip                                                                    *)
(***************************************************************************)
max_capacity == 14

\* the counts a caller may supply; 14 is the capacity itself
Counts == {5, 10, 14, 15, 16}

\* a count posted by an external update: PassengerCount.count is any int
OverrideCounts == {0 - 1}

\* the counts of boarding_events in the demonstration trip
boarding_events == <<2, 5, 8, 12, 15, 13, 10, 7, 4, 1, 0>>

\* Trip(trip_id=..., device_id=..., max_capacity=14): the field defaults
TripNew ==
    [ status |-> "not_started",
      start_time |-> now,
      end_time |-> None,
      current_passenger_count |-> 0,
      max_passenger_count |-> 0,
      max_capacity |-> max_capacity,
      overload_events |-> 0,
      is_overloaded |-> FALSE,
      events |-> <<>> ]

\* TripEvent(event_id=uuid4(), trip_id, event_type, timestamp=now(),
\*           passenger_count=self.current_passenger_count, metadata)
\* uuid4() is a fresh identifier: the position of the event in the log.
TripEvent(t, event_type, metadata) ==
    [ event_id |-> Len(t.events) + 1,
      event_type |-> event_type,
      timestamp |-> now,
      passenger_count |-> t.current_passenger_count,
      metadata |-> metadata ]

\* Trip.add_event that inserts the event at the front of the log (a mutant)
add_event_prepend(t, event_type, metadata) ==
    [t EXCEPT !.events = <<TripEvent(t, event_type, metadata)>> \o t.events]

\* Trip.add_event: the trip after self.events.append(event)
add_event(t, event_type, metadata) ==
    [t EXCEPT !.events = Append(t.events, TripEvent(t, event_type, metadata))]

\* Trip.add_event: the event it returns, which is the object it appended
add_event_returned(t, event_type, metadata) ==
    TripEvent(t, event_type, metadata)

\* Trip.update_passenger_count that also logs an event when the overload
\* clears (a mutant)
update_passenger_count_logs_clear(t, new_count) ==
    LET t1 == [t EXCEPT !.current_passenger_count = new_count,
                        !.max_passenger_count = Max(t.max_passenger_count, new_count)]
    IN  IF new_count > t1.max_capacity
        THEN IF ~t1.is_overloaded
             THEN add_event([t1 EXCEPT !.is_overloaded = TRUE,
                                       !.overload_events = t1.overload_events + 1],
                            "overload_detected",
                            {<<"passenger_count", new_count>>,
                             <<"max_capacity", t1.max_capacity>>})
             ELSE t1
        ELSE IF t1.is_overloaded
             THEN add_event([t1 EXCEPT !.is_overloaded = FALSE], "capacity_warning", {})
             ELSE t1

\* Trip.update_passenger_count with new_count >= max_capacity as the overload
\* test (a mutant)
update_passenger_count_nonstrict(t, new_count) ==
    LET t1 == [t EXCEPT !.current_passenger_count = new_count,
                        !.max_passenger_count = Max(t.max_passenger_count, new_count)]
    IN  IF new_count >= t1.max_capacity
        THEN IF ~t1.is_overloaded
             THEN add_event([t1 EXCEPT !.is_overloaded = TRUE,
                                       !.overload_events = t1.overload_events + 1],
                            "overload_detected",
                            {<<"passenger_count", new_count>>,
                             <<"max_capacity", t1.max_capacity>>})
             ELSE t1
        ELSE [t1 EXCEPT !.is_overloaded = FALSE]

\* Trip.update_passenger_count without the test of is_overloaded (a mutant)
update_passenger_count_every_call(t, new_count) ==
    LET t1 == [t EXCEPT !.current_passenger_count = new_count,
                        !.max_passenger_count = Max(t.max_passenger_count, new_count)]
    IN  IF new_count > t1.max_capacity
        THEN add_event([t1 EXCEPT !.is_overloaded = TRUE,
                                  !.overload_events = t1.overload_events + 1],
                       "overload_detected",
                       {<<"passenger_count", new_count>>,
                        <<"max_capacity", t1.max_capacity>>})
        ELSE [t1 EXCEPT !.is_overloaded = FALSE]

\* Trip.update_passenger_count that stores the new count as the maximum (a
\* mutant)
update_passenger_count_max_last(t, new_count) ==
    LET t1 == [t EXCEPT !.current_passenger_count = new_count,
                        !.max_passenger_count = new_count]
    IN  IF new_count > t1.max_capacity
        THEN IF ~t1.is_overloaded
             THEN add_event([t1 EXCEPT !.is_overloaded = TRUE,
                                       !.overload_events = t1.overload_events + 1],
                            "overload_detected",
                            {<<"passenger_count", new_count>>,
                             <<"max_capacity", t1.max_capacity>>})
             ELSE t1
        ELSE [t1 EXCEPT !.is_overloaded = FALSE]

\* Trip.update_passenger_count
update_passenger_count(t, new_count) ==
    LET t1 == [t EXCEPT !.current_passenger_count = new_count,
                        !.max_passenger_count = Max(t.max_passenger_count, new_count)]
    IN  IF new_count > t1.max_capacity
        THEN IF ~t1.is_overloaded
             THEN add_event([t1 EXCEPT !.is_overloaded = TRUE,
                                       !.overload_events = t1.overload_events + 1],
                            "overload_detected",
                            {<<"passenger_count", new_count>>,
                             <<"max_capacity", t1.max_capacity>>})
             ELSE t1
        ELSE [t1 EXCEPT !.is_overloaded = FALSE]

\* Trip.end_trip
end_trip(t) ==
    [t EXCEPT !.end_time = now, !.status = "completed"]

\* the event types a caller passes to add_event
CallerEventTypes == {"passenger_entry", "passenger_exit"}

TripInit ==
    /\ trip = TripNew
    /\ calls = <<>>

UpdatePassengerCount(n) ==
    /\ Len(calls) < MaxCalls
    /\ trip' = update_passenger_count(trip, n)
    /\ calls' = Append(calls, [n |-> n, was_overloaded |-> trip.is_overloaded])
    /\ UNCHANGED <<thread_vars, now, zone_vars, fusion_vars>>

AddEvent(event_type) ==
    /\ Len(trip.events) < MaxLog
    /\ trip' = add_event(trip, event_type, {})
    /\ UNCHANGED <<thread_vars, now, calls, zone_vars, fusion_vars>>

EndTrip ==
    /\ trip' = end_trip(trip)
    /\ UNCHANGED <<thread_vars, now, calls, zone_vars, fusion_vars>>

\* one iteration of the loop over boarding_events in simulate_taxi_trip, on a
\* trip that has been through the earlier iterations only: the count is
\* supplied, then a passenger event is added (the event type is chosen after
\* the update, by comparing the count with the count just stored)
DemoStep ==
    /\ Len(calls) < Len(boarding_events)
    /\ \A i \in 1..Len(calls) : calls[i].n = boarding_events[i]
    /\ LET count == boarding_events[Len(calls) + 1]
           t1 == update_passenger_count(trip, count)
           event_type == IF count > t1.current_passenger_count
                         THEN "passenger_entry" ELSE "passenger_exit"
       IN  trip' = add_event(t1, event_type, {<<"passenger_count", count>>})
    /\ calls' = Append(calls, [n |-> boarding_events[Len(calls) + 1],
                               was_overloaded |-> trip.is_overloaded])
    /\ UNCHANGED <<thread_vars, now, zone_vars, fusion_vars>>

\* time passes between two calls
TickTrip ==
    /\ now < MaxClock
    /\ now' = now + 1
    /\ UNCHANGED <<thread_vars, trip, calls, zone_vars, fusion_vars>>

(***************************************************************************)
(* ZoneDetector                                                            *)
(***************************************************************************)
\* frame.shape[:2] = (height, width) of the configured camera
FrameShape == <<480, 640>>

\* [x1, y1, x2, y2] in tenths of the frame: the default zones of the repository
\* (they share the line x = 0.5 and leave no neutral area)
DefaultZones == [entry |-> <<0, 0, 5, 10>>, exit |-> <<5, 0, 10, 10>>]

\* the default zones, a configuration with a neutral strip between the zones,
\* and a configuration whose zones overlap between x = 0.4 and x = 0.5
ZoneConfigs ==
    { DefaultZones,
      [entry |-> <<0, 0, 3, 10>>, exit |-> <<7, 0, 10, 10>>],
      [entry |-> <<0, 0, 5, 10>>, exit |-> <<4, 0, 7, 10>>] }

\* Detection.center of the person detections of a frame
Centers == { <<100, 240>>, <<320, 240>>, <<500, 240>> }

\* Detection: the fields the pipeline reads
Detection(center) == [center |-> center, confidence |-> 9]

RECURSIVE SeqsUpTo(_, _)
\* the sequences over S of length at most n
SeqsUpTo(S, n) ==
    IF n = 0 THEN { <<>> }
    ELSE LET shorter == SeqsUpTo(S, n - 1)
         IN  shorter \cup { Append(q, x) : q \in shorter, x \in S }

\* the detector's output for one frame
DetectionLists == SeqsUpTo({ Detection(c) : c \in Centers }, MaxDetections)

\* Zone.contains_point: int(coordinate * w) is coordinate-in-tenths * w \div 10
contains_point(coordinates, point, frame_shape) ==
    LET h == frame_shape[1]
        w == frame_shape[2]
        x == point[1]
        y == point[2]
        x1 == (coordinates[1] * w) \div 10
        y1 == (coordinates[2] * h) \div 10
        x2 == (coordinates[3] * w) \div 10
        y2 == (coordinates[4] * h) \div 10
    IN  x1 <= x /\ x <= x2 /\ y1 <= y /\ y <= y2

\* ZoneDetector._get_zone_for_point that tests the exit zone first (a mutant)
get_zone_for_point_exit_first(point, frame_shape) ==
    IF contains_point(exit_zone, point, frame_shape) THEN "exit"
    ELSE IF contains_point(entry_zone, point, frame_shape) THEN "entry"
    ELSE "neutral"

\* ZoneDetector._get_zone_for_point
get_zone_for_point(point, frame_shape) ==
    IF contains_point(entry_zone, point, frame_shape) THEN "entry"
    ELSE IF contains_point(exit_zone, point, frame_shape) THEN "exit"
    ELSE "neutral"

\* the zone event dictionary built by _check_zone_transition
ZoneEvent(type, person_id, detection, t) ==
    [ type |-> type,
      person_id |-> person_id,
      detection |-> detection,
      timestamp |-> t,
      zone |-> type ]

\* the last n elements of a list: list[-n:]
LastN(q, n) ==
    IF Len(q) <= n THEN q ELSE SubSeq(q, Len(q) - n + 1, Len(q))

\* ZoneDetector._check_zone_transition without the test of zone_history[-2]
\* (a mutant): the set holding the event, or the empty set for None
check_zone_transition_level(pz, person_id, detection) ==
    IF person_id \notin DOMAIN pz \/ Len(pz[person_id]) < 2 THEN {}
    ELSE LET zone_history == pz[person_id]
             n == Len(zone_history)
         IN  IF zone_history[n] = "entry"
             THEN { ZoneEvent("entry", person_id, detection, now) }
             ELSE IF zone_history[n] = "exit"
             THEN { ZoneEvent("exit", person_id, detection, now) }
             ELSE {}

\* ZoneDetector._check_zone_transition: the set holding the event, or the
\* empty set for None
check_zone_transition(pz, person_id, detection) ==
    IF person_id \notin DOMAIN pz \/ Len(pz[person_id]) < 2 THEN {}
    ELSE LET zone_history == pz[person_id]
             n == Len(zone_history)
         IN  IF zone_history[n - 1] = "neutral" /\ zone_history[n] = "entry"
             THEN { ZoneEvent("entry", person_id, detection, now) }
             ELSE IF zone_history[n - 1] = "neutral" /\ zone_history[n] = "exit"
             THEN { ZoneEvent("exit", person_id, detection, now) }
             ELSE {}

\* ZoneDetector._cleanup_old_tracks that removes nothing (a mutant)
cleanup_old_tracks_keep(pz, active_ids) == pz

\* ZoneDetector._cleanup_old_tracks: the tracks of indices not in the frame go
cleanup_old_tracks(pz, active_ids) ==
    [person_id \in (DOMAIN pz) \cap active_ids |-> pz[person_id]]

\* the zone history kept per track
HistoryKept == 10

\* the update of a zone history in detect_zone_events that drops the new zone
\* when the history is full (a mutant)
append_zone_keep_oldest(zone_history, current_zone) ==
    IF Len(zone_history) < HistoryKept THEN Append(zone_history, current_zone)
    ELSE zone_history

\* the update of a zone history in detect_zone_events: append, then keep the
\* last 10
append_zone(zone_history, current_zone) ==
    LastN(Append(zone_history, current_zone), HistoryKept)

RECURSIVE detect_loop(_, _, _, _, _)
\* the for loop of detect_zone_events from the i-th detection on (person_id is
\* the 0-based list index); returns <<person_zones, events>>
detect_loop(i, detections, frame_shape, pz, events) ==
    IF i > Len(detections) THEN <<pz, events>>
    ELSE LET person_id == i - 1
             detection == detections[i]
             current_zone == get_zone_for_point(detection.center, frame_shape)
             old == IF person_id \in DOMAIN pz THEN pz[person_id] ELSE <<>>
             history == append_zone(old, current_zone)
             pz1 == [k \in (DOMAIN pz) \cup {person_id} |->
                        IF k = person_id THEN history ELSE pz[k]]
             event == check_zone_transition(pz1, person_id, detection)
             events1 == IF event = {} THEN events
                        ELSE Append(events, CHOOSE e \in event : TRUE)
         IN  detect_loop(i + 1, detections, frame_shape, pz1, events1)

\* ZoneDetector.detect_zone_events: <<person_zones afterwards, returned events>>
detect_zone_events(detections, frame_shape) ==
    LET r == detect_loop(1, detections, frame_shape, person_zones, <<>>)
    IN  <<cleanup_old_tracks(r[1], { i - 1 : i \in 1..Len(detections) }), r[2]>>

\* ZoneDetector(config): no track yet
ZoneInit(configs) ==
    /\ \E c \in configs : entry_zone = c.entry /\ exit_zone = c.exit
    /\ person_zones = <<>>
    /\ zone_events = <<>>

\* one frame passes through the detector
DetectZoneEvents(detections) ==
    /\ \A k \in DOMAIN person_zones : Len(person_zones[k]) < MaxHistory
    /\ LET r == detect_zone_events(detections, FrameShape)
       IN  /\ person_zones' = r[1]
           /\ zone_events' = r[2]
    /\ UNCHANGED <<thread_vars, now, trip_vars, entry_zone, exit_zone, fusion_vars>>

\* the person centers of a track followed alone: in the entry zone, and on the
\* line x = 0.5 of the width
TrackCenters == { <<100, 240>>, <<320, 240>> }

\* one frame with a single person passes through the detector
DetectZoneEventsOfTrack(center) ==
    /\ cycles < MaxFrames
    /\ LET r == detect_zone_events(<<Detection(center)>>, FrameShape)
       IN  /\ person_zones' = r[1]
           /\ zone_events' = r[2]
    /\ cycles' = cycles + 1
    /\ UNCHANGED <<thread_vars, now, trip_vars, entry_zone, exit_zone, tracker_vars, fraud_vars,
                   counter_vars, enrolled>>

(***************************************************************************)
(* FaceTracker                                                             *)
(* A face id "face_%04d" is modelled by its number.  An encoding is a      *)
(* point on a line, in tenths of the face_distance scale, so that          *)
(* face_distance is the absolute difference.                               *)
(***************************************************************************)
tolerance == 6                  \* config "tolerance": 0.6
max_tracking_time == 10         \* config "max_tracking_time", seconds
EncodingsKept == 10             \* tracked_face.encodings[-10:]

\* face_recognition.face_distance([a], b)[0]
face_distance(a, b) == IF a >= b THEN a - b ELSE b - a

\* FaceDetection as detect_faces builds it: no face_id yet
FaceDetection(bbox, encoding, t) ==
    [ bbox |-> bbox, encoding |-> encoding, timestamp |-> t, face_id |-> None ]

\* FaceTracker.detect_faces: nothing when face recognition is unavailable or
\* the last detection is less than detection_interval (0.5 s) old; otherwise
\* what the encoder found in the frame.  Returns <<detections, last_detection_time>>
detect_faces(found, t) ==
    IF ~enabled THEN << <<>>, last_detection_time >>
    ELSE IF 2 * (t - last_detection_time) < 1 THEN << <<>>, last_detection_time >>
    ELSE << found, t >>

\* FaceTracker._match_detection_to_tracked_face that does not look at the
\* status (a mutant)
match_detection_any_status(tf, detection) ==
    LET within == { id \in DOMAIN tf :
                      /\ Len(tf[id].encodings) > 0
                      /\ face_distance(tf[id].encodings[Len(tf[id].encodings)],
                                       detection.encoding) <= tolerance }
    IN  IF within = {} THEN None
        ELSE CHOOSE id \in within : \A other \in within : id <= other

\* FaceTracker._match_detection_to_tracked_face: the first active tracked face,
\* in dictionary order (the order of creation, which is the order of the ids),
\* whose most recent encoding is within tolerance; None when there is none
match_detection_to_tracked_face(tf, detection) ==
    LET within == { id \in DOMAIN tf :
                      /\ tf[id].status = "active"
                      /\ Len(tf[id].encodings) > 0
                      /\ face_distance(tf[id].encodings[Len(tf[id].encodings)],
                                       detection.encoding) <= tolerance }
    IN  IF within = {} THEN None
        ELSE CHOOSE id \in within : \A other \in within : id <= other

RECURSIVE tracking_loop(_, _, _, _, _)
\* the for loop of update_tracking from the i-th detection on; returns
\* <<tracked_faces, next_face_id, the detections with their face_id set>>
tracking_loop(i, detections, tf, next_id, t) ==
    IF i > Len(detections) THEN <<tf, next_id, detections>>
    ELSE LET detection == detections[i]
             matched_face_id == match_detection_to_tracked_face(tf, detection)
         IN  IF matched_face_id # None
             THEN LET old == tf[matched_face_id]
                      updated ==
                          [old EXCEPT
                             !.encodings = LastN(Append(old.encodings, detection.encoding),
                                                 EncodingsKept),
                             !.last_seen = t,
                             !.detection_count = old.detection_count + 1,
                             !.status = "active"]
                  IN  tracking_loop(i + 1,
                          [detections EXCEPT ![i].face_id = matched_face_id],
                          [tf EXCEPT ![matched_face_id] = updated], next_id, t)
             ELSE LET face_id == next_id
                      tracked_face ==
                          [ encodings |-> <<detection.encoding>>,
                            last_seen |-> t,
                            first_seen |-> t,
                            detection_count |-> 1,
                            status |-> "active" ]
                  IN  tracking_loop(i + 1,
                          [detections EXCEPT ![i].face_id = face_id],
                          [id \in (DOMAIN tf) \cup {face_id} |->
                              IF id = face_id THEN tracked_face ELSE tf[id]],
                          next_id + 1, t)

\* update_tracking after the matching loop, without the removal of the faces
\* not seen for twice max_tracking_time (a mutant)
age_tracked_faces_keep(tf, t) ==
    LET timeout_threshold == t - max_tracking_time
    IN  [id \in DOMAIN tf |->
            IF tf[id].last_seen < timeout_threshold /\ tf[id].status = "active"
            THEN [tf[id] EXCEPT !.status = "lost"]
            ELSE tf[id]]

\* update_tracking after the matching loop: faces not seen for more than
\* max_tracking_time become lost, faces not seen for twice that are removed
age_tracked_faces(tf, t) ==
    LET timeout_threshold == t - max_tracking_time
        cleanup_threshold == t - max_tracking_time * 2
        marked == [id \in DOMAIN tf |->
                     IF tf[id].last_seen < timeout_threshold /\ tf[id].status = "active"
                     THEN [tf[id] EXCEPT !.status = "lost"]
                     ELSE tf[id]]
        kept == { id \in DOMAIN tf : ~(tf[id].last_seen < cleanup_threshold) }
    IN  [id \in kept |-> marked[id]]

\* FaceTracker.update_tracking: <<tracked_faces, next_face_id, detections>>
update_tracking(detections, t) ==
    LET r == tracking_loop(1, detections, tracked_faces, next_face_id, t)
    IN  <<age_tracked_faces(r[1], t), r[2], r[3]>>

\* FaceTracker(config).  last_detection_time starts at 0 on the time.time()
\* scale, which lies before the start of the process (time 0 of the model).
TrackerInit(availability) ==
    /\ enabled \in availability
    /\ last_detection_time = None
    /\ tracked_faces = <<>>
    /\ next_face_id = 1

\* the encodings of the faces shown to the tracker alone: 0 and 8 are two
\* persons (8 > tolerance apart), 5 is within tolerance of both and nearer to 8
TrackerEncodings == {0, 8, 5}

\* what the encoder finds in a frame shown to the tracker alone
TrackerFaceLists ==
    SeqsUpTo({ [bbox |-> <<100, 140, 180, 60>>, encoding |-> e] : e \in TrackerEncodings },
             MaxDetections)

\* seconds between two update_tracking calls: one second, longer than
\* max_tracking_time, longer than twice max_tracking_time
TrackerSteps == { 1, 11, 21 }

\* one call of FaceTracker.update_tracking, dt seconds after the last one
UpdateTracking(dt, found) ==
    /\ cycles < MaxCycles
    /\ LET t == now + dt
           detections == [i \in 1..Len(found) |->
                             FaceDetection(found[i].bbox, found[i].encoding, t)]
       IN  \E r \in { update_tracking(detections, t) } :
              /\ now' = t
              /\ tracked_faces' = r[1]
              /\ next_face_id' = r[2]
              /\ face_detections' = r[3]
              /\ enrolled' = [id \in (DOMAIN enrolled) \cup (DOMAIN r[1]) |->
                                 IF id \in DOMAIN enrolled THEN enrolled[id]
                                 ELSE r[1][id].encodings[1]]
    /\ cycles' = cycles + 1
    /\ UNCHANGED <<thread_vars, trip_vars, zone_vars, enabled, last_detection_time,
                   passenger_records, fraud_stats, validated_events, counter_vars>>

\* FaceTracker.reset_tracking
ResetTracking ==
    /\ tracked_faces' = <<>>
    /\ next_face_id' = 1
    /\ UNCHANGED <<thread_vars, now, trip_vars, zone_vars, enabled, last_detection_time,
                   fraud_vars, counter_vars, cycles, enrolled>>

(***************************************************************************)
(* AntiFraudManager                                                        *)
(***************************************************************************)
temporary_exit_timeout == 30    \* seconds
max_distance == 100             \* pixels
RecordsKept == 3600             \* timedelta(hours=1), seconds

\* event.get("face_id")
event_face_id(event) ==
    IF "face_id" \in DOMAIN event THEN event.face_id ELSE None

\* event["face_id"] = face_id
with_face_id(event, face_id) ==
    [k \in (DOMAIN event) \cup {"face_id"} |->
        IF k = "face_id" THEN face_id ELSE event[k]]

\* the face center computed in _match_zone_event_to_face from
\* bbox = (top, right, bottom, left)
face_center(bbox) == << (bbox[4] + bbox[2]) \div 2, (bbox[1] + bbox[3]) \div 2 >>

\* the square of the distance between two points
distance2(p, q) ==
    (p[1] - q[1]) * (p[1] - q[1]) + (p[2] - q[2]) * (p[2] - q[2])

RECURSIVE closest_face_loop(_, _, _, _, _)
\* the for loop of _match_zone_event_to_face from the i-th face on: the index
\* of the closest face so far (0 for none) and the square of its distance
\* (None for infinity); returns the index of the closest face
closest_face_loop(i, faces, person_center, closest, min_distance2) ==
    IF i > Len(faces) THEN <<closest, min_distance2>>
    ELSE LET d2 == distance2(person_center, face_center(faces[i].bbox))
         IN  IF min_distance2 = None \/ d2 < min_distance2
             THEN closest_face_loop(i + 1, faces, person_center, i, d2)
             ELSE closest_face_loop(i + 1, faces, person_center, closest, min_distance2)

\* AntiFraudManager._match_zone_event_to_face that takes the first face within
\* max_distance (a mutant)
match_zone_event_to_face_first(event, faces) ==
    LET near == { k \in 1..Len(faces) :
                    distance2(event.detection.center, face_center(faces[k].bbox))
                        <= max_distance * max_distance }
    IN  IF near = {} THEN 0 ELSE CHOOSE k \in near : \A l \in near : k <= l

\* AntiFraudManager._match_zone_event_to_face: the index in faces of the matched
\* face detection, 0 for None
match_zone_event_to_face(event, faces) ==
    IF Len(faces) = 0 THEN 0
    ELSE LET r == closest_face_loop(1, faces, event.detection.center, 0, None)
         IN  IF r[1] # 0 /\ r[2] <= max_distance * max_distance THEN r[1] ELSE 0

\* AntiFraudManager._is_legitimate_event that accepts every event (a mutant)
is_legitimate_event_always(records, event_type, face_id) == TRUE

\* AntiFraudManager._is_legitimate_event
is_legitimate_event(records, event_type, face_id) ==
    IF face_id \notin DOMAIN records THEN TRUE
    ELSE IF event_type = "entry"
         THEN records[face_id].status \in {"outside", "temporary_exit"}
    ELSE IF event_type = "exit"
         THEN records[face_id].status = "inside"
    ELSE FALSE

RECURSIVE validate_loop(_, _, _, _, _)
\* the for loop of _validate_zone_events from the i-th event on; returns
\* <<validated_events, stats["prevented_double_counts"]>>
validate_loop(i, events, faces, validated, prevented) ==
    IF i > Len(events) THEN <<validated, prevented>>
    ELSE LET event == events[i]
             matched_face == match_zone_event_to_face(event, faces)
         IN  IF matched_face # 0
             THEN LET face_id == faces[matched_face].face_id
                  IN  IF is_legitimate_event(passenger_records, event.type, face_id)
                      THEN validate_loop(i + 1, events, faces,
                               Append(validated, with_face_id(event, face_id)), prevented)
                      ELSE validate_loop(i + 1, events, faces, validated, prevented + 1)
             ELSE validate_loop(i + 1, events, faces, Append(validated, event), prevented)

\* AntiFraudManager._validate_zone_events that drops the events without a face
\* match (a mutant)
validate_zone_events_strict(events, faces) ==
    LET r == validate_loop(1, events, faces, <<>>, fraud_stats.prevented_double_counts)
        matched(e) == event_face_id(e) # None
    IN  <<SelectSeq(r[1], matched), r[2]>>

\* AntiFraudManager._validate_zone_events
validate_zone_events(events, faces) ==
    validate_loop(1, events, faces, <<>>, fraud_stats.prevented_double_counts)

\* PassengerRecord(face_id, entry_time, status)
PassengerRecord(event_type, t) ==
    [ entry_time |-> IF event_type = "entry" THEN t ELSE None,
      exit_time |-> None,
      status |-> IF event_type = "entry" THEN "inside" ELSE "outside",
      zone_events |-> <<>> ]

RECURSIVE record_loop(_, _, _, _, _)
\* the for loop of _update_passenger_records over the validated events from
\* the i-th on; st is <<unique_passengers_seen, temporary_exits_handled>>;
\* returns <<passenger_records, st>>
record_loop(i, validated, records, st, t) ==
    IF i > Len(validated) THEN <<records, st>>
    ELSE LET event == validated[i]
             face_id == event_face_id(event)
             event_type == event.type
             logged == <<event_type, t>>
         IN  IF face_id = None THEN record_loop(i + 1, validated, records, st, t)
             ELSE IF face_id \notin DOMAIN records
             THEN LET record == [PassengerRecord(event_type, t) EXCEPT
                                    !.zone_events = <<logged>>]
                  IN  record_loop(i + 1, validated,
                          [id \in (DOMAIN records) \cup {face_id} |->
                              IF id = face_id THEN record ELSE records[id]],
                          <<st[1] + 1, st[2]>>, t)
             ELSE LET old == records[face_id]
                      handled == IF event_type = "entry" /\ old.status = "temporary_exit"
                                 THEN st[2] + 1 ELSE st[2]
                      changed ==
                          IF event_type = "entry"
                          THEN [old EXCEPT !.status = "inside", !.entry_time = t]
                          ELSE IF event_type = "exit"
                          THEN [old EXCEPT !.status = "outside", !.exit_time = t]
                          ELSE old
                      record == [changed EXCEPT
                                    !.zone_events = Append(changed.zone_events, logged)]
                  IN  record_loop(i + 1, validated,
                          [records EXCEPT ![face_id] = record], <<st[1], handled>>, t)

\* the second loop of _update_passenger_records without the test of the
\* record's status being inside (a mutant)
silence_rule_any_status(records, tf, t) ==
    LET active_face_ids == { id \in DOMAIN tf : tf[id].status = "active" }
    IN  [face_id \in DOMAIN records |->
            IF /\ face_id \notin active_face_ids
               /\ t - records[face_id].entry_time > temporary_exit_timeout
            THEN [records[face_id] EXCEPT !.status = "temporary_exit"]
            ELSE records[face_id]]

\* the second loop of _update_passenger_records that sets the status outside
\* (a mutant)
silence_rule_to_outside(records, tf, t) ==
    LET active_face_ids == { id \in DOMAIN tf : tf[id].status = "active" }
    IN  [face_id \in DOMAIN records |->
            IF /\ records[face_id].status = "inside"
               /\ face_id \notin active_face_ids
               /\ t - records[face_id].entry_time > temporary_exit_timeout
            THEN [records[face_id] EXCEPT !.status = "outside"]
            ELSE records[face_id]]

\* the second loop of _update_passenger_records: an inside record whose face is
\* not among the active tracked faces and whose entry is older than the
\* temporary-exit timeout becomes temporary_exit
silence_rule(records, tf, t) ==
    LET active_face_ids == { id \in DOMAIN tf : tf[id].status = "active" }
    IN  [face_id \in DOMAIN records |->
            IF /\ records[face_id].status = "inside"
               /\ face_id \notin active_face_ids
               /\ t - records[face_id].entry_time > temporary_exit_timeout
            THEN [records[face_id] EXCEPT !.status = "temporary_exit"]
            ELSE records[face_id]]

\* AntiFraudManager._update_passenger_records: <<passenger_records, st>>
update_passenger_records(validated, tf, t) ==
    LET r == record_loop(1, validated, passenger_records,
                         <<fraud_stats.unique_passengers_seen,
                           fraud_stats.temporary_exits_handled>>, t)
    IN  <<silence_rule(r[1], tf, t), r[2]>>

\* AntiFraudManager._cleanup_old_records
cleanup_old_records(records, t) ==
    LET cleanup_threshold == t - RecordsKept
        last_activity(r) == IF r.exit_time # None THEN r.exit_time ELSE r.entry_time
        records_to_remove ==
            { face_id \in DOMAIN records :
                /\ last_activity(records[face_id]) # None
                /\ last_activity(records[face_id]) < cleanup_threshold }
    IN  [face_id \in (DOMAIN records) \ records_to_remove |-> records[face_id]]

\* AntiFraudManager.get_current_passenger_count
get_current_passenger_count(records) ==
    Cardinality({ face_id \in DOMAIN records :
                    records[face_id].status \in {"inside", "temporary_exit"} })

\* AntiFraudManager(config)
FraudInit ==
    /\ face_detections = <<>>
    /\ passenger_records = <<>>
    /\ validated_events = <<>>
    /\ fraud_stats = [ prevented_double_counts |-> 0,
                       temporary_exits_handled |-> 0,
                       unique_passengers_seen |-> 0,
                       false_positives_prevented |-> 0 ]

(***************************************************************************)
(* PassengerCounter                                                        *)
(***************************************************************************)
counter_max_capacity == 14      \* config["trip"]["max_capacity"], default 14
EventsKept == 100               \* self.passenger_events[-100:]

\* PassengerEvent(event_type, timestamp, person_id, detection, confidence)
PassengerEvent(event, t) ==
    [ event_type |-> event.type,
      timestamp |-> t,
      person_id |-> event.person_id,
      detection |-> event.detection,
      confidence |-> event.detection.confidence ]

\* PassengerCounter._handle_zone_event without the floor at zero (a mutant)
handle_zone_event_unfloored(c, event, t) ==
    LET count1 == IF event.type = "entry" THEN c.current_count + 1
                  ELSE IF event.type = "exit" THEN c.current_count - 1
                  ELSE c.current_count
    IN  [ current_count |-> count1,
          stats |-> [c.stats EXCEPT
                        !.total_entries = @ + (IF event.type = "entry" THEN 1 ELSE 0),
                        !.total_exits = @ + (IF event.type = "exit" THEN 1 ELSE 0),
                        !.last_activity = t],
          passenger_events |-> LastN(Append(c.passenger_events, PassengerEvent(event, t)),
                                     EventsKept) ]

\* PassengerCounter._handle_zone_event that keeps the whole event history (a
\* mutant)
handle_zone_event_untrimmed(c, event, t) ==
    LET count1 == IF event.type = "entry" THEN c.current_count + 1
                  ELSE IF event.type = "exit" THEN Max(0, c.current_count - 1)
                  ELSE c.current_count
        stats1 == [c.stats EXCEPT
                     !.total_entries = @ + (IF event.type = "entry" THEN 1 ELSE 0),
                     !.total_exits = @ + (IF event.type = "exit" THEN 1 ELSE 0)]
        stats2 == IF count1 > counter_max_capacity
                  THEN [stats1 EXCEPT !.overload_events = @ + 1]
                  ELSE stats1
    IN  [ current_count |-> count1,
          stats |-> [stats2 EXCEPT !.last_activity = t],
          passenger_events |-> Append(c.passenger_events, PassengerEvent(event, t)) ]

\* PassengerCounter._handle_zone_event on c = [current_count, stats,
\* passenger_events]: the count and the statistics, the overload check, the
\* event history cut to its last 100 events
handle_zone_event(c, event, t) ==
    LET count1 == IF event.type = "entry" THEN c.current_count + 1
                  ELSE IF event.type = "exit" THEN Max(0, c.current_count - 1)
                  ELSE c.current_count
        stats1 == [c.stats EXCEPT
                     !.total_entries = @ + (IF event.type = "entry" THEN 1 ELSE 0),
                     !.total_exits = @ + (IF event.type = "exit" THEN 1 ELSE 0)]
        stats2 == IF count1 > counter_max_capacity
                  THEN [stats1 EXCEPT !.overload_events = @ + 1]
                  ELSE stats1
    IN  [ current_count |-> count1,
          stats |-> [stats2 EXCEPT !.last_activity = t],
          passenger_events |-> LastN(Append(c.passenger_events, PassengerEvent(event, t)),
                                     EventsKept) ]

RECURSIVE handle_loop(_, _, _, _)
\* _processing_loop: for event in zone_events: self._handle_zone_event(event)
handle_loop(i, events, c, t) ==
    IF i > Len(events) THEN c
    ELSE handle_loop(i + 1, events, handle_zone_event(c, events[i], t), t)

\* PassengerCounter(config)
CounterInit ==
    /\ current_count = 0
    /\ passenger_events = <<>>
    /\ stats = [ total_entries |-> 0,
                 total_exits |-> 0,
                 current_passengers |-> 0,
                 overload_events |-> 0,
                 last_activity |-> None ]

(***************************************************************************)
(* One processed frame.  TaxiCounterApp.initialize builds the counter and   *)
(* the anti-fraud manager side by side (main.py:152-158).  The processing  *)
(* loop hands every zone event of the frame to _handle_zone_event          *)
(* (passenger_counter.py:188-189); the manager sees the same frame through *)
(* process_frame_with_detections, and nothing reads its validated events.  *)
(***************************************************************************)
\* the person centers of the zone events, and the face boxes
\* (top, right, bottom, left) with their encodings: person A's face is exactly
\* 100 pixels from A's center, person B's face 40 pixels from B's center
EventCenters == { <<100, 240>>, <<500, 240>> }

FaceA == [bbox |-> <<100, 140, 180, 60>>, encoding |-> 0]

FaceB == [bbox |-> <<160, 540, 240, 460>>, encoding |-> 10]

\* what the encoder finds in a frame
FaceLists == { <<>>, <<FaceA>>, <<FaceA, FaceB>> }

EventOptions == { [type |-> ty, center |-> c] : ty \in {"entry", "exit"}, c \in EventCenters }

\* the zone events of a frame, as type and person center: none, one, or an
\* entry of person A together with an entry of person B
EventLists ==
    SeqsUpTo(EventOptions, 1) \cup
    { << [type |-> "entry", center |-> <<100, 240>>],
         [type |-> "entry", center |-> <<500, 240>>] >> }

\* a second face near person A, 40 pixels from A's center, and a face whose
\* center (101, 140) is a little more than 100 pixels from A's center
FaceC == [bbox |-> <<160, 140, 240, 60>>, encoding |-> 10]

FaceD == [bbox |-> <<100, 141, 180, 61>>, encoding |-> 20]

\* frames in which the faces around person A differ in number, distance and order
MatchFaceLists ==
    { <<>>, <<FaceA>>, <<FaceD>>, <<FaceA, FaceC>>, <<FaceC, FaceA>>, <<FaceD, FaceB>> }

\* seconds between two processed frames: one second, longer than the
\* temporary-exit timeout, longer than the time records are kept
TickSteps == { 1, 31, 3601 }

\* AntiFraudManager.process_frame_with_detections on the faces found in the
\* frame and the frame's zone events, at time t; returns the new values of
\* <<last_detection_time, tracked_faces, next_face_id, face_detections,
\*   validated_events, passenger_records, fraud_stats>>
process_frame_with_detections(found, events, t) ==
    LET df == detect_faces(found, t)
        tracked == update_tracking(df[1], t)
        validated == validate_zone_events(events, tracked[3])
        updated == update_passenger_records(validated[1], tracked[1], t)
    IN  << df[2], tracked[1], tracked[2], tracked[3], validated[1],
           cleanup_old_records(updated[1], t),
           [fraud_stats EXCEPT !.prevented_double_counts = validated[2],
                               !.unique_passengers_seen = updated[2][1],
                               !.temporary_exits_handled = updated[2][2]] >>

ProcessFrame(dt, found, event_list) ==
    /\ cycles < MaxCycles
    /\ LET t == now + dt
           faces == [i \in 1..Len(found) |->
                        FaceDetection(found[i].bbox, found[i].encoding, t)]
           events == [i \in 1..Len(event_list) |->
                        ZoneEvent(event_list[i].type, i - 1,
                                  Detection(event_list[i].center), t)]
       IN  \E r \in { process_frame_with_detections(faces, events, t) },
              c \in { handle_loop(1, events,
                                  [current_count |-> current_count, stats |-> stats,
                                   passenger_events |-> passenger_events], t) } :
              /\ now' = t
              /\ zone_events' = events
              /\ last_detection_time' = r[1]
              /\ tracked_faces' = r[2]
              /\ next_face_id' = r[3]
              /\ face_detections' = r[4]
              /\ validated_events' = r[5]
              /\ passenger_records' = r[6]
              /\ fraud_stats' = r[7]
              /\ current_count' = c.current_count
              /\ stats' = c.stats
              /\ passenger_events' = c.passenger_events
              /\ enrolled' = [id \in (DOMAIN enrolled) \cup (DOMAIN r[2]) |->
                                 IF id \in DOMAIN enrolled THEN enrolled[id]
                                 ELSE r[2][id].encodings[1]]
    /\ cycles' = cycles + 1
    /\ UNCHANGED <<thread_vars, trip_vars, entry_zone, exit_zone, person_zones, enabled>>

\* PassengerCounter.reset_count: the count, the event history and four of the
\* statistics; last_activity stays
ResetCount ==
    /\ current_count' = 0
    /\ passenger_events' = <<>>
    /\ stats' = [stats EXCEPT !.total_entries = 0,
                              !.total_exits = 0,
                              !.current_passengers = 0,
                              !.overload_events = 0]
    /\ presented' = [call |-> "reset_count", at |-> processing_pc, result |-> None]
    /\ UNCHANGED <<now, trip_vars, zone_vars, tracker_vars, fraud_vars, cycles,
                   enrolled, camera_vars, loop_vars, event_callbacks, stop_pc>>

\* PassengerCounter._handle_zone_event(event) as one step, one second after the
\* event before it, with no callback registered
HandleZoneEvent(event_type) ==
    /\ stats.total_entries + stats.total_exits < MaxHandled
    /\ event_type = "exit" => stats.total_exits < MaxExits
    /\ LET t == now + 1
           event == ZoneEvent(event_type, 0, Detection(<<100, 240>>), t)
       IN  \E c \in { handle_zone_event([current_count |-> current_count, stats |-> stats,
                                         passenger_events |-> passenger_events],
                                        event, t) } :
              /\ now' = t
              /\ current_count' = c.current_count
              /\ stats' = c.stats
              /\ passenger_events' = c.passenger_events
    /\ UNCHANGED <<thread_vars, trip_vars, zone_vars, tracker_vars, fraud_vars, cycles,
                   enrolled>>

\* AntiFraudManager.reset: the records, the tracker (reset_tracking) and the
\* anti-fraud statistics
Reset ==
    /\ passenger_records' = <<>>
    /\ tracked_faces' = <<>>
    /\ next_face_id' = 1
    /\ fraud_stats' = [ prevented_double_counts |-> 0,
                        temporary_exits_handled |-> 0,
                        unique_passengers_seen |-> 0,
                        false_positives_prevented |-> 0 ]
    /\ UNCHANGED <<thread_vars, now, trip_vars, zone_vars, enabled, last_detection_time,
                   face_detections, validated_events, counter_vars, cycles,
                   enrolled>>

(***************************************************************************)
(* The threads.  CameraStream.start starts the capture thread              *)
(* (_capture_frames), PassengerCounter.start the processing thread         *)
(* (_processing_loop); the presentation layer calls get_current_count,     *)
(* get_statistics, get_recent_events, reset_count and stop from other      *)
(* threads.  No lock is taken anywhere in PassengerCounter; the queue      *)
(* operations of frame_queue are atomic.  One step of a thread is one      *)
(* statement that reads or writes shared state.  The counter is started    *)
(* and stopped once (main.py:184, main.py:243); StartCall, StopCall and    *)
(* the Loop steps follow repeated start() and stop() calls.                *)
(***************************************************************************)
maxsize == 10                   \* Queue(maxsize=10)
process_every_n_frames == 3

ThreadInit ==
    /\ camera_is_running = FALSE
    /\ frame_queue = <<>>
    /\ frame_count = 0
    /\ capture_pc = "idle"
    /\ last_delivered = 0
    /\ lost = {}
    /\ none_frames = {}
    /\ processing_threads = <<>>
    /\ is_running = FALSE
    /\ processing_pc = "idle"
    /\ frame_counter = 0
    /\ event_index = 0
    /\ callback_index = 0
    /\ callback_log = <<>>
    /\ emitted = 0
    /\ event_callbacks = <<>>
    /\ stop_pc = "idle"
    /\ presented = [call |-> "none", at |-> "idle", result |-> None]

\* what the capture thread and the other consumers of the queue leave alone
outside_camera ==
    <<static_vars, person_zones, zone_events, counter_vars, loop_vars,
      event_callbacks, stop_pc, presented>>

\* CameraStream.start
CameraStart ==
    /\ ~camera_is_running
    /\ capture_pc = "idle"
    /\ camera_is_running' = TRUE
    /\ capture_pc' = "while"
    /\ UNCHANGED <<frame_queue, frame_count, last_delivered, lost, none_frames,
                   outside_camera>>

\* _capture_frames: while self.is_running
CaptureWhile ==
    /\ capture_pc = "while"
    /\ capture_pc' = IF camera_is_running THEN "read" ELSE "done"
    /\ UNCHANGED <<camera_is_running, frame_queue, frame_count, last_delivered, lost, none_frames,
                  
                   outside_camera>>

\* _capture_frames: ret, frame = self.cap.read(); self.frame_count += 1.  The
\* frame is known by its number; at most limit frames are captured.
CaptureRead(limit) ==
    /\ capture_pc = "read"
    /\ frame_count < limit
    /\ frame_count' = frame_count + 1
    /\ capture_pc' = "put"
    /\ UNCHANGED <<camera_is_running, frame_queue, last_delivered, lost, none_frames,
                   outside_camera>>

\* _capture_frames: the read or the reconnection fails (also: the capture
\* object was released by stop), the loop sleeps and continues
CaptureReadFails ==
    /\ capture_pc = "read"
    /\ capture_pc' = "while"
    /\ UNCHANGED <<camera_is_running, frame_queue, frame_count, last_delivered, lost, none_frames,
                  
                   outside_camera>>

\* _capture_frames: cap.read() returns (False, None) and _reconnect() returns
\* True: neither continue is taken, the loop goes on to self.frame_count += 1
\* and to the put with frame = None.  (_reconnect gives up after 5 attempts in
\* a row; reconnect_attempts is 0 at the start and after every pass through
\* the end of the loop body, and the model does not count it.)
CaptureReconnect(limit) ==
    /\ capture_pc = "read"
    /\ frame_count < limit
    /\ frame_count' = frame_count + 1
    /\ none_frames' = none_frames \cup {frame_count + 1}
    /\ capture_pc' = "put"
    /\ UNCHANGED <<camera_is_running, frame_queue, last_delivered, lost, outside_camera>>

\* _capture_frames: self.frame_queue.put_nowait(frame); Full leads to the
\* except branch
CapturePut ==
    /\ capture_pc = "put"
    /\ IF Len(frame_queue) < maxsize
       THEN /\ frame_queue' = Append(frame_queue, frame_count)
            /\ capture_pc' = "while"
       ELSE /\ frame_queue' = frame_queue
            /\ capture_pc' = "drop"
    /\ UNCHANGED <<camera_is_running, frame_count, last_delivered, lost, none_frames,
                   outside_camera>>

\* _capture_frames, in the except branch: self.frame_queue.get_nowait(); on
\* Empty the inner except passes and the frame is not put
CaptureDrop ==
    /\ capture_pc = "drop"
    /\ IF frame_queue # <<>>
       THEN /\ frame_queue' = Tail(frame_queue)
            /\ capture_pc' = "reput"
            /\ lost' = lost
       ELSE /\ frame_queue' = frame_queue
            /\ capture_pc' = "while"
            /\ lost' = lost \cup {frame_count}
    /\ UNCHANGED <<camera_is_running, frame_count, last_delivered, none_frames,
                   outside_camera>>

\* _capture_frames, in the except branch: self.frame_queue.put_nowait(frame);
\* Full here is not caught by "except Empty" and ends the iteration in the
\* outer except
CaptureReput ==
    /\ capture_pc = "reput"
    /\ IF Len(frame_queue) < maxsize
       THEN /\ frame_queue' = Append(frame_queue, frame_count)
            /\ lost' = lost
       ELSE /\ frame_queue' = frame_queue
            /\ lost' = lost \cup {frame_count}
    /\ capture_pc' = "while"
    /\ UNCHANGED <<camera_is_running, frame_count, last_delivered, none_frames,
                   outside_camera>>

\* CameraStream.get_frame called by a consumer other than the processing loop
\* (get_debug_frame, the video endpoints) when the queue holds a frame
GetFrame ==
    /\ frame_queue # <<>>
    /\ last_delivered' = Head(frame_queue)
    /\ frame_queue' = Tail(frame_queue)
    /\ UNCHANGED <<camera_is_running, frame_count, capture_pc, lost, none_frames,
                   outside_camera>>

\* what the processing thread leaves alone
outside_loop ==
    <<static_vars, camera_is_running, frame_count, capture_pc, lost, none_frames,
      processing_threads, event_callbacks, stop_pc, presented>>

\* PassengerCounter.add_event_callback
AddEventCallback(callback) ==
    /\ Len(event_callbacks) < MaxCallbacks
    /\ event_callbacks' = Append(event_callbacks, callback)
    /\ UNCHANGED <<static_vars, person_zones, zone_events, counter_vars, camera_vars,
                   loop_vars, stop_pc, presented>>

\* the functions registered as callbacks
Callbacks == { "on_passenger_event", "notify" }

\* PassengerCounter.start, once, before any stop: the camera stream starts, then
\* the processing thread
Start ==
    /\ ~is_running
    /\ processing_pc = "idle"
    /\ capture_pc = "idle"
    /\ stop_pc = "idle"
    /\ camera_is_running' = TRUE
    /\ capture_pc' = "while"
    /\ is_running' = TRUE
    /\ processing_pc' = "while"
    /\ UNCHANGED <<static_vars, person_zones, zone_events, counter_vars, frame_queue,
                   frame_count, last_delivered, lost, none_frames, processing_threads,
                   frame_counter, event_index, callback_index, callback_log, emitted,
                   event_callbacks, stop_pc, presented>>

\* _processing_loop: while self.is_running, that never ends (a mutant)
processing_while_forever(running) == "get_frame"

\* _processing_loop: while self.is_running
processing_while(running) == IF running THEN "get_frame" ELSE "done"

ProcWhile ==
    /\ processing_pc = "while"
    /\ processing_pc' = processing_while(is_running)
    /\ UNCHANGED <<person_zones, zone_events, counter_vars, frame_queue, last_delivered,
                   is_running, frame_counter, event_index, callback_index,
                   callback_log, emitted, outside_loop>>

\* _processing_loop: if self.frame_counter % self.process_every_n_frames != 0
\* that skips no frame (a mutant)
skip_frame_never(counter) == FALSE

\* _processing_loop: if self.frame_counter % self.process_every_n_frames != 0
skip_frame(counter) == counter % process_every_n_frames # 0

\* _processing_loop: frame = self.camera_stream.get_frame(timeout=1.0), None
\* when the queue stays empty; if frame is None: continue;
\* self.frame_counter += 1; two frames of three are skipped
ProcGetFrame ==
    /\ processing_pc = "get_frame"
    /\ IF frame_queue = <<>>
       THEN /\ processing_pc' = "while"
            /\ UNCHANGED <<frame_queue, last_delivered, frame_counter>>
       ELSE /\ last_delivered' = Head(frame_queue)
            /\ frame_queue' = Tail(frame_queue)
            /\ IF Head(frame_queue) \in none_frames
               THEN /\ frame_counter' = frame_counter
                    /\ processing_pc' = "while"
               ELSE /\ frame_counter' = frame_counter + 1
                    /\ processing_pc' =
                          IF skip_frame(frame_counter + 1) THEN "while" ELSE "detect"
    /\ UNCHANGED <<person_zones, zone_events, counter_vars, is_running, event_index,
                   callback_index, callback_log, emitted, outside_loop>>

\* the zones the counter is configured with when its threads run: a neutral
\* strip lies between the entry zone and the exit zone (with the default
\* zones no event is ever returned)
StreamZones == [entry |-> <<0, 0, 3, 10>>, exit |-> <<7, 0, 10, 10>>]

\* what the person detector finds in the frames the processing thread gets:
\* nobody, two persons in the neutral strip, one or two in the entry zone, one
\* in the entry zone and one in the exit zone
StreamDetectionLists ==
    { <<>>,
      << Detection(<<320, 240>>), Detection(<<320, 240>>) >>,
      << Detection(<<100, 240>>) >>,
      << Detection(<<100, 240>>), Detection(<<100, 240>>) >>,
      << Detection(<<100, 240>>), Detection(<<500, 240>>) >> }

\* _processing_loop: detections = self.person_detector.detect(frame);
\* zone_events = self.zone_detector.detect_zone_events(...); the for loop starts
ProcDetect(detections) ==
    /\ processing_pc = "detect"
    /\ \E r \in { detect_zone_events(detections, FrameShape) } :
          /\ person_zones' = r[1]
          /\ zone_events' = r[2]
          /\ emitted' = emitted + Len(r[2])
          /\ processing_pc' = IF r[2] = <<>> THEN "while" ELSE "count"
    /\ event_index' = 1
    /\ UNCHANGED <<counter_vars, frame_queue, last_delivered, is_running, frame_counter,
                   callback_index, callback_log, outside_loop>>

\* what the statements of _handle_zone_event leave alone besides the counter
outside_handler ==
    <<person_zones, zone_events, frame_queue, last_delivered, is_running,
      frame_counter, event_index, callback_index, callback_log, emitted,
      outside_loop>>

\* _handle_zone_event: self.current_count += 1, or max(0, self.current_count - 1)
ProcCount ==
    /\ processing_pc = "count"
    /\ current_count' =
          IF zone_events[event_index].type = "entry" THEN current_count + 1
          ELSE IF zone_events[event_index].type = "exit" THEN Max(0, current_count - 1)
          ELSE current_count
    /\ processing_pc' = "total"
    /\ UNCHANGED <<stats, passenger_events, outside_handler>>

\* _handle_zone_event: self.stats["total_entries"] += 1, or total_exits
ProcTotal ==
    /\ processing_pc = "total"
    /\ stats' =
          IF zone_events[event_index].type = "entry"
          THEN [stats EXCEPT !.total_entries = @ + 1]
          ELSE IF zone_events[event_index].type = "exit"
          THEN [stats EXCEPT !.total_exits = @ + 1]
          ELSE stats
    /\ processing_pc' = "overload"
    /\ UNCHANGED <<current_count, passenger_events, outside_handler>>

\* _handle_zone_event: if self.current_count > self.max_capacity
ProcOverload ==
    /\ processing_pc = "overload"
    /\ stats' = IF current_count > counter_max_capacity
                THEN [stats EXCEPT !.overload_events = @ + 1]
                ELSE stats
    /\ processing_pc' = "last_activity"
    /\ UNCHANGED <<current_count, passenger_events, outside_handler>>

\* _handle_zone_event: self.stats["last_activity"] = datetime.now()
ProcLastActivity ==
    /\ processing_pc = "last_activity"
    /\ stats' = [stats EXCEPT !.last_activity = now]
    /\ processing_pc' = "append"
    /\ UNCHANGED <<current_count, passenger_events, outside_handler>>

\* _handle_zone_event: self.passenger_events.append(passenger_event)
ProcAppend ==
    /\ processing_pc = "append"
    /\ passenger_events' =
          Append(passenger_events, PassengerEvent(zone_events[event_index], now))
    /\ processing_pc' = "trim"
    /\ UNCHANGED <<current_count, stats, outside_handler>>

\* _handle_zone_event: the history is cut to its last 100 events; the loop
\* over the callbacks starts
ProcTrim ==
    /\ processing_pc = "trim"
    /\ passenger_events' = LastN(passenger_events, EventsKept)
    /\ callback_index' = 1
    /\ processing_pc' = "callbacks"
    /\ UNCHANGED <<current_count, stats, person_zones, zone_events, frame_queue,
                   last_delivered, is_running, frame_counter, event_index,
                   callback_log, emitted, outside_loop>>

\* the try around callback(passenger_event) without its except (a mutant)
after_callback_propagates(raised) == IF raised THEN "except" ELSE "next"

\* try: callback(passenger_event) except Exception: the loop goes on to the
\* next callback whether the callback raised or not
after_callback(raised) == "next"

\* the number, among all the zone events received, of the one being handled
EventNumber == emitted - Len(zone_events) + event_index

\* _handle_zone_event: one turn of "for callback in self.event_callbacks", and
\* after the last one the next turn of "for event in zone_events".  An
\* exception that left the handler would end the cycle in the except branch of
\* _processing_loop.
ProcCallback ==
    /\ processing_pc = "callbacks"
    /\ IF callback_index <= Len(event_callbacks)
       THEN \E raised \in BOOLEAN :
               /\ callback_log' =
                     Append(callback_log,
                            [ callback |-> event_callbacks[callback_index],
                              event |-> EventNumber,
                              raised |-> raised,
                              count |-> current_count,
                              stored |-> Len(passenger_events),
                              totals |-> stats.total_entries + stats.total_exits ])
               /\ IF after_callback(raised) = "next"
                  THEN /\ callback_index' = callback_index + 1
                       /\ processing_pc' = "callbacks"
                  ELSE /\ callback_index' = callback_index
                       /\ processing_pc' = "while"
               /\ event_index' = event_index
       ELSE /\ event_index' = event_index + 1
            /\ processing_pc' = IF event_index < Len(zone_events) THEN "count" ELSE "while"
            /\ UNCHANGED <<callback_index, callback_log>>
    /\ UNCHANGED <<counter_vars, person_zones, zone_events, frame_queue, last_delivered,
                   is_running, frame_counter, emitted, outside_loop>>

\* what a presentation-layer call leaves alone besides the counter
outside_presentation ==
    <<static_vars, person_zones, zone_events, camera_vars, loop_vars, event_callbacks,
      stop_pc>>

\* PassengerCounter.get_current_count
GetCurrentCount ==
    /\ presented' = [call |-> "get_current_count", at |-> processing_pc,
                     result |-> current_count]
    /\ UNCHANGED <<counter_vars, outside_presentation>>

\* PassengerCounter.get_statistics: writes current_passengers, returns a copy
GetStatistics ==
    /\ stats' = [stats EXCEPT !.current_passengers = current_count]
    /\ presented' = [call |-> "get_statistics", at |-> processing_pc,
                     result |-> current_count]
    /\ UNCHANGED <<current_count, passenger_events, outside_presentation>>

\* PassengerCounter.get_recent_events, as the number of events returned
GetRecentEvents ==
    /\ presented' = [call |-> "get_recent_events", at |-> processing_pc,
                     result |-> Len(LastN(passenger_events, 10))]
    /\ UNCHANGED <<counter_vars, outside_presentation>>

\* what the caller of stop leaves alone
outside_stop ==
    <<static_vars, person_zones, zone_events, counter_vars, frame_count, capture_pc,
      last_delivered, lost, none_frames, processing_threads, processing_pc,
      frame_counter, event_index, callback_index, callback_log, emitted,
      event_callbacks, presented>>

\* PassengerCounter.stop: self.is_running = False
Stop ==
    /\ stop_pc = "idle"
    /\ is_running' = FALSE
    /\ stop_pc' = "join_processing"
    /\ UNCHANGED <<camera_is_running, frame_queue, outside_stop>>

\* PassengerCounter.stop: the join of the processing thread returns (the
\* thread ended, or 5 seconds passed); CameraStream.stop: self.is_running = False
StopCamera ==
    /\ stop_pc = "join_processing"
    /\ camera_is_running' = FALSE
    /\ stop_pc' = "join_capture"
    /\ UNCHANGED <<is_running, frame_queue, outside_stop>>

\* CameraStream.stop: the join of the capture thread returns, the capture
\* object is released, the queue is emptied
StopDrain ==
    /\ stop_pc = "join_capture"
    /\ frame_queue' = <<>>
    /\ stop_pc' = "done"
    /\ UNCHANGED <<is_running, camera_is_running, outside_stop>>

\* what the calls of start() and the threads they create leave alone
outside_lifecycle ==
    <<static_vars, person_zones, zone_events, counter_vars, camera_vars, processing_pc,
      frame_counter, event_index, callback_index, callback_log, emitted,
      event_callbacks>>

\* PassengerCounter.start() called at any time outside stop(): nothing when
\* is_running is set; else the camera is started (initialized says whether
\* that worked), is_running is set and a new processing thread is created
StartCall(initialized) ==
    /\ stop_pc \in {"idle", "done"}
    /\ IF is_running
       THEN /\ presented' = [call |-> "start", at |-> "running", result |-> 1]
            /\ UNCHANGED <<is_running, processing_threads, camera_is_running, stop_pc>>
       ELSE IF ~initialized
       THEN /\ presented' = [call |-> "start", at |-> "stopped", result |-> 0]
            /\ UNCHANGED <<is_running, processing_threads, camera_is_running, stop_pc>>
       ELSE /\ Len(processing_threads) < MaxThreads
            /\ camera_is_running' = TRUE
            /\ is_running' = TRUE
            /\ processing_threads' = Append(processing_threads, "while")
            /\ stop_pc' = "idle"
            /\ presented' = [call |-> "start", at |-> "stopped", result |-> 1]
    /\ UNCHANGED <<static_vars, person_zones, zone_events, counter_vars, frame_queue,
                   frame_count, capture_pc, last_delivered, lost, none_frames,
                   processing_pc, frame_counter, event_index, callback_index,
                   callback_log, emitted, event_callbacks>>

\* PassengerCounter.stop() called again after an earlier stop() returned
StopCall ==
    /\ stop_pc = "done"
    /\ is_running' = FALSE
    /\ stop_pc' = "join_processing"
    /\ UNCHANGED <<camera_is_running, frame_queue, outside_stop>>

\* one of the created threads at "while self.is_running" of _processing_loop
LoopWhile(i) ==
    /\ i \in 1..Len(processing_threads)
    /\ processing_threads[i] = "while"
    /\ processing_threads' =
          [processing_threads EXCEPT ![i] = IF is_running THEN "body" ELSE "done"]
    /\ UNCHANGED <<is_running, stop_pc, presented, outside_lifecycle>>

\* one of the created threads ends an iteration of _processing_loop (get_frame
\* returned or timed out, the frame was skipped or processed)
LoopBody(i) ==
    /\ i \in 1..Len(processing_threads)
    /\ processing_threads[i] = "body"
    /\ processing_threads' = [processing_threads EXCEPT ![i] = "while"]
    /\ UNCHANGED <<is_running, stop_pc, presented, outside_lifecycle>>

\* the state after construction, for a zone configuration among configs and
\* face recognition available or not as in availability
InitWith(configs, availability) ==
    /\ now = 0
    /\ TripInit
    /\ ZoneInit(configs)
    /\ TrackerInit(availability)
    /\ FraudInit
    /\ CounterInit
    /\ ThreadInit
    /\ cycles = 0
    /\ enrolled = <<>>

Init == InitWith({DefaultZones}, {TRUE})

InitZone == InitWith(ZoneConfigs, {TRUE})

InitFusion == InitWith({DefaultZones}, BOOLEAN)

InitStream == InitWith({StreamZones}, {TRUE})

\* a trip used by its callers: counts, events, end_trip, in any order
NextTrip ==
    \/ \E n \in Counts : Len(calls) < MaxTripCalls /\ UpdatePassengerCount(n)
    \/ \E e \in CallerEventTypes : AddEvent(e)
    \/ EndTrip
    \/ TickTrip

SpecTrip == Init /\ [][NextTrip]_vars

\* a trip that is only fed counts (test_system.py:81-88, demo_system.py:98-99)
NextTripCounts ==
    \E n \in Counts : UpdatePassengerCount(n)

SpecTripCounts == Init /\ [][NextTripCounts]_vars

\* a trip fed counts by its callers, by an external update, or by the
\* demonstration loop
NextTripLedger ==
    \/ \E n \in Counts \cup OverrideCounts : UpdatePassengerCount(n)
    \/ DemoStep

SpecTripLedger == Init /\ [][NextTripLedger]_vars

\* the zone detector fed one frame after the other
NextZone ==
    \E detections \in DetectionLists : DetectZoneEvents(detections)

SpecZone == InitZone /\ [][NextZone]_vars

\* the zone detector following one person through many frames
NextZoneTrack ==
    \E center \in TrackCenters : DetectZoneEventsOfTrack(center)

SpecZoneTrack == InitZone /\ [][NextZoneTrack]_vars

\* the face tracker fed one frame after the other, and reset at any time
NextTracker ==
    \/ \E dt \in TrackerSteps, found \in TrackerFaceLists : UpdateTracking(dt, found)
    \/ ResetTracking

SpecTracker == Init /\ [][NextTracker]_vars

\* the fusion pipeline fed one processed frame after the other
NextFusion ==
    \E dt \in TickSteps, found \in FaceLists, event_list \in EventLists :
        ProcessFrame(dt, found, event_list)

SpecFusion == InitFusion /\ [][NextFusion]_vars

\* the fusion pipeline fed frames one second apart, with at most one zone event
\* and several faces at different distances from it
NextMatch ==
    \E found \in MatchFaceLists, event_list \in SeqsUpTo(EventOptions, 1) :
        ProcessFrame(1, found, event_list)

SpecMatch == Init /\ [][NextMatch]_vars

\* the zone events of one cycle when up to two tracked persons cross a line
\* near person A in the same frame
CycleEventLists ==
    SeqsUpTo({ e \in EventOptions : e.center = <<100, 240>> }, 2)

\* the fusion pipeline fed frames one second apart, each with up to two zone
\* events near the same face
NextCycle ==
    \E found \in FaceLists, event_list \in CycleEventLists :
        ProcessFrame(1, found, event_list)

SpecCycle == Init /\ [][NextCycle]_vars

\* the capture thread with reads that fail, reconnections that work, and a
\* consumer calling get_frame
NextReconnect ==
    \/ CameraStart
    \/ CaptureWhile
    \/ CaptureRead(MaxStreamed)
    \/ CaptureReadFails
    \/ CaptureReconnect(MaxStreamed)
    \/ CapturePut
    \/ GetFrame

SpecReconnect == Init /\ [][NextReconnect]_vars

\* the counter running on a camera whose reads may fail
NextCadence ==
    \/ Start
    \/ CaptureWhile
    \/ CaptureRead(MaxStreamed)
    \/ CaptureReadFails
    \/ CaptureReconnect(MaxStreamed)
    \/ CapturePut
    \/ ProcWhile
    \/ ProcGetFrame
    \/ \E detections \in StreamDetectionLists : ProcDetect(detections)
    \/ ProcCount
    \/ ProcTotal
    \/ ProcOverload
    \/ ProcLastActivity
    \/ ProcAppend
    \/ ProcTrim
    \/ ProcCallback

SpecCadence == InitStream /\ [][NextCadence]_vars

\* start() and stop() called one after the other at any time, and the
\* processing threads the start() calls created
NextLifecycle ==
    \/ \E initialized \in BOOLEAN : StartCall(initialized)
    \/ Stop
    \/ StopCall
    \/ StopCamera
    \/ StopDrain
    \/ \E i \in 1..MaxThreads : LoopWhile(i)
    \/ \E i \in 1..MaxThreads : LoopBody(i)

SpecLifecycle == Init /\ [][NextLifecycle]_vars

\* the counter handed one zone event after the other, never reset
NextHandler ==
    \E event_type \in {"entry", "exit"} : HandleZoneEvent(event_type)

SpecHandler == Init /\ [][NextHandler]_vars

\* the fusion pipeline fed frames one second apart, with the two resets called
\* at any time between frames
NextReset ==
    \/ \E found \in FaceLists, event_list \in EventLists :
          ProcessFrame(1, found, event_list)
    \/ ResetCount
    \/ Reset

SpecReset == Init /\ [][NextReset]_vars

\* the camera stream alone: the capture thread, and consumers taking frames
NextCamera ==
    \/ CameraStart
    \/ CaptureWhile
    \/ CaptureRead(MaxCaptured)
    \/ CaptureReadFails
    \/ CapturePut
    \/ CaptureDrop
    \/ CaptureReput
    \/ GetFrame

SpecCamera == Init /\ [][NextCamera]_vars

\* the counter running, with callbacks registered at any time
NextCallbacks ==
    \/ \E callback \in Callbacks : AddEventCallback(callback)
    \/ Start
    \/ CaptureWhile
    \/ CaptureRead(MaxStreamed)
    \/ CapturePut
    \/ ProcWhile
    \/ ProcGetFrame
    \/ \E detections \in StreamDetectionLists : ProcDetect(detections)
    \/ ProcCount
    \/ ProcTotal
    \/ ProcOverload
    \/ ProcLastActivity
    \/ ProcAppend
    \/ ProcTrim
    \/ ProcCallback

SpecCallbacks == InitStream /\ [][NextCallbacks]_vars

\* the counter running, with the presentation layer calling at any time
NextPresentation ==
    \/ Start
    \/ CaptureWhile
    \/ CaptureRead(MaxStreamed)
    \/ CapturePut
    \/ ProcWhile
    \/ ProcGetFrame
    \/ \E detections \in StreamDetectionLists : ProcDetect(detections)
    \/ ProcCount
    \/ ProcTotal
    \/ ProcOverload
    \/ ProcLastActivity
    \/ ProcAppend
    \/ ProcTrim
    \/ ProcCallback
    \/ GetCurrentCount
    \/ GetStatistics
    \/ GetRecentEvents
    \/ ResetCount

SpecPresentation == InitStream /\ [][NextPresentation]_vars

\* the steps of the capture thread and of the processing thread
CaptureThread ==
    CaptureWhile \/ CaptureRead(MaxStreamed) \/ CaptureReadFails \/ CapturePut

ProcessingThread ==
    \/ ProcWhile
    \/ ProcGetFrame
    \/ \E detections \in StreamDetectionLists : ProcDetect(detections)
    \/ ProcCount
    \/ ProcTotal
    \/ ProcOverload
    \/ ProcLastActivity
    \/ ProcAppend
    \/ ProcTrim
    \/ ProcCallback

\* the counter started, then stopped at any time, with the count read at any
\* time
NextStop ==
    \/ Start
    \/ CaptureWhile
    \/ CaptureRead(MaxStreamed)
    \/ CaptureReadFails
    \/ CapturePut
    \/ ProcWhile
    \/ ProcGetFrame
    \/ \E detections \in StreamDetectionLists : ProcDetect(detections)
    \/ ProcCount
    \/ ProcTotal
    \/ ProcOverload
    \/ ProcLastActivity
    \/ ProcAppend
    \/ ProcTrim
    \/ ProcCallback
    \/ Stop
    \/ StopCamera
    \/ StopDrain
    \/ GetCurrentCount
    \/ GetStatistics

\* The threads are scheduled fairly and each of their statements returns
\* (get_frame and the two joins have timeouts), and a caller that entered stop
\* goes through it; nothing makes anybody call start or stop.
SpecStop ==
    /\ InitStream
    /\ [][NextStop]_vars
    /\ WF_vars(CaptureThread)
    /\ WF_vars(ProcessingThread)
    /\ WF_vars(StopCamera \/ StopDrain)

(***************************************************************************)
(* Claims about Trip                                                       *)
(***************************************************************************)
\* the counts supplied so far, in call order
SuppliedCounts == [i \in 1..Len(calls) |-> calls[i].n]

\* the calls that supplied a count above capacity while is_overloaded was false
RisingEdges ==
    {i \in 1..Len(calls) : calls[i].n > max_capacity /\ ~calls[i].was_overloaded}

\* C2: overload_events equals the number of update_passenger_count calls whose
\* count exceeded max_capacity while is_overloaded was false before the call;
\* with capacity 14 the counts 5,10,15,10,16,10 leave overload_events = 2.
EdgeTriggeredOverload ==
    /\ trip.overload_events = Cardinality(RisingEdges)
    /\ (SuppliedCounts = <<5, 10, 15, 10, 16, 10>> => trip.overload_events = 2)

\* C2 witness: the six counts have been fed and both rising edges were counted
EdgeTriggeredOverloadWitness ==
    /\ SuppliedCounts = <<5, 10, 15, 10, 16, 10>>
    /\ trip.overload_events = 2
    /\ ~trip.is_overloaded

\* C9: a second end_trip() leaves end_time as the first call stamped it, leaves
\* the status completed and appends no event.
IdempotentEndTrip ==
    [][(trip.status = "completed" /\ EndTrip) =>
          /\ trip'.end_time = trip.end_time
          /\ trip'.status = "completed"
          /\ trip'.events = trip.events]_vars

\* the fields C10 names
LedgerFields(t) ==
    <<t.current_passenger_count, t.max_passenger_count, t.is_overloaded,
      t.overload_events, t.events>>

\* C10: after end_trip(), a call of update_passenger_count or add_event leaves
\* the counts, the overload state and the event log unchanged.
ClosedTripImmutable ==
    [][(/\ trip.status = "completed"
        /\ \/ \E n \in Counts : UpdatePassengerCount(n)
           \/ \E e \in CallerEventTypes : AddEvent(e)) =>
          LedgerFields(trip') = LedgerFields(trip)]_vars

\* the terminal values of Trip.status
TerminalStatuses == {"completed", "cancelled", "error"}

\* C11: the first update_passenger_count on a not_started trip makes it
\* active, a terminal status is reached only from active, and no operation
\* changes the status of a trip in a terminal state.
TripStatusMachine ==
    [][ /\ (trip.status = "not_started" /\ \E n \in Counts : UpdatePassengerCount(n))
              => trip'.status = "active"
        /\ (trip.status \notin TerminalStatuses /\ trip'.status \in TerminalStatuses)
              => trip.status = "active"
        /\ trip.status \in TerminalStatuses => trip'.status = trip.status
      ]_vars

\* the positions in the event log of the events that no caller added
LedgerEvents ==
    { k \in 1..Len(trip.events) : trip.events[k].event_type \notin CallerEventTypes }

\* C12: the events the ledger itself wrote are all overload_detected and as
\* many as overload_events (none is written when the overload clears); the
\* counts 2,5,8,12,15,13,10,7,4,1,0 leave exactly one of them and
\* is_overloaded false.
OverloadLogMatchesCounter ==
    /\ \A k \in LedgerEvents : trip.events[k].event_type = "overload_detected"
    /\ Cardinality(LedgerEvents) = trip.overload_events
    /\ SuppliedCounts = boarding_events =>
          Cardinality(LedgerEvents) = 1 /\ ~trip.is_overloaded

\* C12 witness: the demonstration counts have all been supplied; the overload
\* at 15 was logged once and has cleared
OverloadLogMatchesCounterWitness ==
    /\ SuppliedCounts = boarding_events
    /\ trip.overload_events = 1
    /\ \E k \in LedgerEvents : trip.events[k].passenger_count = 15
    /\ ~trip.is_overloaded
    /\ trip.current_passenger_count = 0

\* C13: is_overloaded is true iff current_passenger_count > max_capacity.
OverloadIffAboveCapacity ==
    trip.is_overloaded <=> trip.current_passenger_count > trip.max_capacity

\* C13 witness: the count fell from above capacity to the capacity itself and
\* the overload cleared
OverloadIffAboveCapacityWitness ==
    /\ Len(calls) >= 2
    /\ calls[Len(calls)].n = max_capacity
    /\ calls[Len(calls)].was_overloaded
    /\ trip.current_passenger_count = max_capacity
    /\ ~trip.is_overloaded

\* C14: update_passenger_count(n) with n < 0 leaves current_passenger_count = 0.
NegativeCountClamped ==
    [][ (\E n \in OverrideCounts : UpdatePassengerCount(n))
            => trip'.current_passenger_count = 0 ]_vars

\* C15: every operation keeps the event log as a prefix of the new log;
\* add_event appends exactly one event, the one it returns, carrying
\* current_passenger_count; an overload_detected event appended by
\* update_passenger_count carries the new count.
AppendOnlyEventLog ==
    [][ /\ Len(trip'.events) >= Len(trip.events)
        /\ SubSeq(trip'.events, 1, Len(trip.events)) = trip.events
        /\ \A e \in CallerEventTypes : AddEvent(e) =>
              /\ Len(trip'.events) = Len(trip.events) + 1
              /\ trip'.events[Len(trip'.events)] = add_event_returned(trip, e, {})
              /\ trip'.events[Len(trip'.events)].passenger_count =
                    trip.current_passenger_count
        /\ \A n \in Counts : UpdatePassengerCount(n) =>
              /\ Len(trip'.events) <= Len(trip.events) + 1
              /\ Len(trip'.events) = Len(trip.events) + 1 =>
                    /\ trip'.events[Len(trip'.events)].event_type = "overload_detected"
                    /\ trip'.events[Len(trip'.events)].passenger_count = n
      ]_vars

\* C15 witness: an overload_detected event carrying 15 is followed in the log
\* by an event a caller added at the same count
AppendOnlyEventLogWitness ==
    /\ Len(trip.events) = 2
    /\ trip.events[1].event_type = "overload_detected"
    /\ trip.events[1].passenger_count = 15
    /\ trip.events[2].event_type = "passenger_entry"
    /\ trip.events[2].passenger_count = 15
    /\ trip.status = "completed"

(***************************************************************************)
(* Claims about ZoneDetector                                               *)
(***************************************************************************)
\* the two most recent entries of a zone history (fewer if it is shorter)
Tail2(h) == LastN(h, 2)

\* the types of the events the last call returned for a track index
EmittedFor(person_id) ==
    { zone_events[k].type : k \in { j \in 1..Len(zone_events) :
                                       zone_events[j].person_id = person_id } }

\* the number of events the last call returned for a track index
EmittedCount(person_id) ==
    Cardinality({ j \in 1..Len(zone_events) : zone_events[j].person_id = person_id })

\* C8: after detect_zone_events, a track index has an event in the result iff
\* its two most recent history entries are (neutral, entry), giving one entry
\* event, or (neutral, exit), giving one exit event; every other history,
\* a history of length 1 included, gives no event.
ZoneTransitionRule ==
    /\ \A j \in 1..Len(zone_events) : zone_events[j].person_id \in DOMAIN person_zones
    /\ \A person_id \in DOMAIN person_zones :
          LET t == Tail2(person_zones[person_id])
          IN  /\ t = <<"neutral", "entry">> =>
                    EmittedFor(person_id) = {"entry"} /\ EmittedCount(person_id) = 1
              /\ t = <<"neutral", "exit">> =>
                    EmittedFor(person_id) = {"exit"} /\ EmittedCount(person_id) = 1
              /\ t \notin { <<"neutral", "entry">>, <<"neutral", "exit">> } =>
                    EmittedCount(person_id) = 0

\* C8 witness: one frame in which track 0 crossed neutral -> entry and got its
\* event while track 1 went entry -> exit without a neutral frame and got none
ZoneTransitionRuleWitness ==
    /\ DOMAIN person_zones = {0, 1}
    /\ Tail2(person_zones[0]) = <<"neutral", "entry">>
    /\ Tail2(person_zones[1]) = <<"entry", "exit">>
    /\ Len(zone_events) = 1
    /\ zone_events[1].type = "entry"
    /\ zone_events[1].person_id = 0

\* the zone history of a track index before the frame, empty for a new index
HistoryBefore(person_id) ==
    IF person_id \in DOMAIN person_zones THEN person_zones[person_id] ELSE <<>>

\* C27: a zone history never holds more than 10 entries; a frame appends one
\* zone to it, and when it already held 10 the oldest entry is the one dropped.
TrackWindowBound ==
    [][ \A person_id \in DOMAIN person_zones' :
            LET old == HistoryBefore(person_id)
                new == person_zones'[person_id]
            IN  /\ Len(new) >= 1
                /\ Len(new) <= 10
                /\ IF Len(old) < 10
                   THEN SubSeq(new, 1, Len(new) - 1) = old
                   ELSE SubSeq(new, 1, 9) = SubSeq(old, 2, 10)
      ]_vars

\* C27 witness: after 12 frames of one track the history holds the last 10
\* zones, nine neutral frames and the entry that followed them
TrackWindowBoundWitness ==
    /\ cycles = 12
    /\ DOMAIN person_zones = {0}
    /\ person_zones[0] = <<"neutral", "neutral", "neutral", "neutral", "neutral",
                            "neutral", "neutral", "neutral", "neutral", "entry">>
    /\ Len(zone_events) = 1

\* the track indices of a frame with these detections
IndicesOf(detections) == { i - 1 : i \in 1..Len(detections) }

\* C28: after detect_zone_events on a frame with k detections the tracked
\* indices are exactly 0..k-1, and an index that was not tracked before the
\* frame has a history of one zone and no event.
ImmediatePruning ==
    [][ \A detections \in DetectionLists :
            DetectZoneEvents(detections) =>
                /\ DOMAIN person_zones' = IndicesOf(detections)
                /\ \A person_id \in IndicesOf(detections) \ DOMAIN person_zones :
                      /\ Len(person_zones'[person_id]) = 1
                      /\ \A j \in 1..Len(zone_events') :
                            zone_events'[j].person_id # person_id
      ]_vars

\* C28 witness: index 0 has been tracked for three frames, index 1 is in its
\* first frame, in the entry zone, and has no event
ImmediatePruningWitness ==
    /\ DOMAIN person_zones = {0, 1}
    /\ Len(person_zones[0]) = 3
    /\ person_zones[1] = <<"entry">>
    /\ Tail2(person_zones[0]) = <<"neutral", "exit">>
    /\ Len(zone_events) = 1
    /\ zone_events[1].person_id = 0

\* the zone of a point by the rule of C29
ZoneByPriority(point) ==
    IF contains_point(entry_zone, point, FrameShape) THEN "entry"
    ELSE IF contains_point(exit_zone, point, FrameShape) THEN "exit"
    ELSE "neutral"

CreatedIds == (DOMAIN tracked_faces') \ (DOMAIN tracked_faces)

\* C16: no id is assigned to two identities: an identity created by any
\* tracker operation gets an id that no earlier identity had.
IdsNeverReused ==
    [][ \A id \in CreatedIds : id \notin DOMAIN enrolled ]_vars

\* the tracked faces as the matching loop of the call just made found them
\* when it came to the i-th detection
TrackedBefore(i) ==
    tracking_loop(1, SubSeq(face_detections', 1, i - 1),
                  tracked_faces, next_face_id, now')[1]

\* the distance of an encoding to the most recent encoding of an identity
DistanceTo(tf, id, encoding) ==
    face_distance(tf[id].encodings[Len(tf[id].encodings)], encoding)

\* the active identities within tolerance of an encoding
WithinTolerance(tf, encoding) ==
    { id \in DOMAIN tf : /\ tf[id].status = "active"
                         /\ DistanceTo(tf, id, encoding) <= tolerance }

\* C17: update_tracking gives a detection the id of the active identity
\* nearest to its encoding among those within tolerance, and a new id when no
\* active identity is within tolerance.
NearestIdentityMatched ==
    [][ cycles' = cycles + 1 =>
          \A i \in 1..Len(face_detections') :
              LET tf == TrackedBefore(i)
                  encoding == face_detections'[i].encoding
                  face_id == face_detections'[i].face_id
                  within == WithinTolerance(tf, encoding)
              IN  IF within = {} THEN face_id \notin DOMAIN tf
                  ELSE /\ face_id \in within
                       /\ \A other \in within :
                             DistanceTo(tf, face_id, encoding) <=
                                 DistanceTo(tf, other, encoding)
      ]_vars

\* the identities the call just made matched or created
SeenIds == { face_detections'[i].face_id : i \in 1..Len(face_detections') }

\* C18: after update_tracking at time now, an identity unseen for more than
\* max_tracking_time is lost and still tracked, an identity unseen for more
\* than twice max_tracking_time is gone, and an identity seen in the call is
\* active with last_seen = now.
IdentityAging ==
    [][ cycles' = cycles + 1 =>
          /\ \A id \in DOMAIN tracked_faces' :
                /\ now' - tracked_faces'[id].last_seen > max_tracking_time =>
                      tracked_faces'[id].status = "lost"
                /\ now' - tracked_faces'[id].last_seen <= 2 * max_tracking_time
          /\ \A id \in (DOMAIN tracked_faces) \ SeenIds :
                now' - tracked_faces[id].last_seen <= 2 * max_tracking_time =>
                    /\ id \in DOMAIN tracked_faces'
                    /\ tracked_faces'[id].last_seen = tracked_faces[id].last_seen
          /\ \A id \in SeenIds :
                /\ id \in DOMAIN tracked_faces'
                /\ tracked_faces'[id].status = "active"
                /\ tracked_faces'[id].last_seen = now'
      ]_vars

\* C18 witness: of three identities, the first is gone after 22 seconds of
\* absence, the second is lost after 11, the third was seen in the last call
IdentityAgingWitness ==
    /\ DOMAIN tracked_faces = {2, 3}
    /\ 1 \in DOMAIN enrolled
    /\ tracked_faces[2].status = "lost"
    /\ now - tracked_faces[2].last_seen = 11
    /\ tracked_faces[3].status = "active"
    /\ tracked_faces[3].last_seen = now

(***************************************************************************)
(* Claims about the fusion pipeline                                        *)
(***************************************************************************)
\* the indices of the zone events of the frame just processed
EventIndices == 1..Len(zone_events')

\* the identity matched to the i-th zone event of the frame just processed,
\* None when no face is within reach
MatchedFaceId(i) ==
    LET k == match_zone_event_to_face(zone_events'[i], face_detections')
    IN  IF k = 0 THEN None ELSE face_detections'[k].face_id

\* the i-th zone event of the frame just processed is among the validated events
Accepted(i) ==
    \E j \in 1..Len(validated_events') :
        validated_events'[j].person_id = zone_events'[i].person_id

\* some validated event of the frame just processed carries this identity
TouchedByAccepted(face_id) ==
    \E j \in 1..Len(validated_events') : event_face_id(validated_events'[j]) = face_id

\* the entry events of the frame just processed that are matched to an identity
\* whose record was inside before the frame
Suppressed ==
    { i \in EventIndices :
        /\ zone_events'[i].type = "entry"
        /\ MatchedFaceId(i) # None
        /\ MatchedFaceId(i) \in DOMAIN passenger_records
        /\ passenger_records[MatchedFaceId(i)].status = "inside" }

\* C1: an entry event matched to an identity whose record is inside is not
\* among the accepted events, does not increment the passenger count, leaves
\* the record's status and event log as they were, and adds exactly 1 to
\* prevented_double_counts.
DoubleCountSuppression ==
    [][ /\ \A i \in Suppressed :
              /\ ~Accepted(i)
              /\ ~TouchedByAccepted(MatchedFaceId(i)) =>
                    /\ MatchedFaceId(i) \in DOMAIN passenger_records'
                    /\ passenger_records'[MatchedFaceId(i)].status = "inside"
                    /\ passenger_records'[MatchedFaceId(i)].zone_events =
                          passenger_records[MatchedFaceId(i)].zone_events
        /\ fraud_stats'.prevented_double_counts >=
              fraud_stats.prevented_double_counts + Cardinality(Suppressed)
        /\ current_count' - current_count <=
              Cardinality({ i \in EventIndices \ Suppressed :
                              zone_events'[i].type = "entry" })
      ]_vars

\* C3: the published passenger count is never negative, whatever entry and
\* exit events the counter handled.
CountNonNegative ==
    /\ current_count >= 0
    /\ get_current_passenger_count(passenger_records) >= 0

\* C3 witness: exits were handled while the count was 0
CountNonNegativeWitness ==
    /\ stats.total_exits >= 2
    /\ stats.total_entries = 0
    /\ current_count = 0

\* C4: after every processing cycle the published passenger count equals the
\* number of PassengerRecords that are inside or temporary_exit.
CountEqualsRecords ==
    current_count = get_current_passenger_count(passenger_records)

\* the encoding of the face matched to a validated event, None for an
\* unmatched event
AcceptedEncoding(j) ==
    LET k == match_zone_event_to_face(validated_events'[j], face_detections')
    IN  IF event_face_id(validated_events'[j]) = None \/ k = 0 THEN None
        ELSE face_detections'[k].encoding

\* the records in temporary_exit whose identity shows the face of the j-th
\* validated event (its encoding is within tolerance of the identity's)
ReturningTo(j) ==
    { face_id \in DOMAIN passenger_records :
        /\ passenger_records[face_id].status = "temporary_exit"
        /\ AcceptedEncoding(j) # None
        /\ face_distance(enrolled[face_id], AcceptedEncoding(j)) <= tolerance }

\* C5: the next accepted entry event of an identity whose record is
\* temporary_exit sets that record back to inside and adds exactly 1 to
\* temporary_exits_handled.
TemporaryExitRoundTrip ==
    [][ \A j \in 1..Len(validated_events') :
            validated_events'[j].type = "entry" =>
                \A face_id \in ReturningTo(j) :
                    /\ face_id \in DOMAIN passenger_records'
                    /\ passenger_records'[face_id].status = "inside"
                    /\ fraud_stats'.temporary_exits_handled =
                          fraud_stats.temporary_exits_handled + 1
      ]_vars

\* C6 as stated: in a cycle with zero face detections every zone event is
\* forwarded, none is rejected, prevented_double_counts is unchanged and no
\* PassengerRecord is created or updated.
UnvalidatedFallbackNoRecordChange ==
    [][ Len(face_detections') = 0 =>
            /\ validated_events' = zone_events'
            /\ fraud_stats'.prevented_double_counts = fraud_stats.prevented_double_counts
            /\ passenger_records' = passenger_records
      ]_vars

\* C6 as amended: in a cycle with zero face detections every zone event is
\* forwarded, none is rejected, the statistics are unchanged, and the events
\* create and update no PassengerRecord: a record changes only by the silence
\* rule (inside -> temporary_exit) or is purged by the cleanup.
UnvalidatedFallback ==
    [][ Len(face_detections') = 0 =>
            /\ validated_events' = zone_events'
            /\ fraud_stats' = fraud_stats
            /\ DOMAIN passenger_records' \subseteq DOMAIN passenger_records
            /\ \A face_id \in DOMAIN passenger_records' :
                  \/ passenger_records'[face_id] = passenger_records[face_id]
                  \/ /\ passenger_records[face_id].status = "inside"
                     /\ passenger_records'[face_id] =
                           [passenger_records[face_id] EXCEPT !.status = "temporary_exit"]
      ]_vars

\* C6 witness: a frame without faces whose two zone events were both forwarded
\* while a record of an earlier frame went to temporary_exit
UnvalidatedFallbackWitness ==
    /\ Len(face_detections) = 0
    /\ Len(zone_events) = 2
    /\ validated_events = zone_events
    /\ \E face_id \in DOMAIN passenger_records :
          passenger_records[face_id].status = "temporary_exit"

\* the rule of C7 for an event of this type matched to this identity
LegitimateByRule(event_type, face_id) ==
    \/ face_id \notin DOMAIN passenger_records
    \/ /\ event_type = "entry"
       /\ passenger_records[face_id].status \in {"outside", "temporary_exit"}
    \/ /\ event_type = "exit"
       /\ passenger_records[face_id].status = "inside"

\* the matched zone events of the frame just processed
Matched == { i \in EventIndices : MatchedFaceId(i) # None }

\* C7: an event matched to an identity is accepted iff the identity has no
\* record, or the event is an entry and the record is outside or
\* temporary_exit, or the event is an exit and the record is inside; every
\* other matched event is dropped and adds 1 to prevented_double_counts.
LegitimacyRule ==
    [][ /\ \A i \in Matched :
              Accepted(i) <=> LegitimateByRule(zone_events'[i].type, MatchedFaceId(i))
        /\ fraud_stats'.prevented_double_counts =
              fraud_stats.prevented_double_counts +
              Cardinality({ i \in Matched :
                  ~LegitimateByRule(zone_events'[i].type, MatchedFaceId(i)) })
      ]_vars

\* the event types in the log of a record
LoggedTypes(face_id) ==
    [k \in 1..Len(passenger_records[face_id].zone_events) |->
        passenger_records[face_id].zone_events[k][1]]

\* C7 witness: identity 1 was accepted at its first sighting, at its exit while
\* inside and at its entry while outside, and in that last frame the entry of
\* identity 2, whose record is inside, was dropped
LegitimacyRuleWitness ==
    /\ 1 \in DOMAIN passenger_records
    /\ 2 \in DOMAIN passenger_records
    /\ LoggedTypes(1) = <<"entry", "exit", "entry">>
    /\ LoggedTypes(2) = <<"entry">>
    /\ Len(zone_events) = 2
    /\ Len(validated_events) = 1
    /\ fraud_stats.prevented_double_counts = 1

\* the status of an identity's record, "absent" when it has none
StatusOf(records, face_id) ==
    IF face_id \in DOMAIN records THEN records[face_id].status ELSE "absent"

\* the status transitions C19 lists
ListedTransitions ==
    { <<"absent", "inside">>, <<"absent", "outside">>, <<"outside", "inside">>,
      <<"temporary_exit", "inside">>, <<"inside", "outside">>,
      <<"inside", "temporary_exit">> }

\* the silence rule applies to this identity in the frame just processed: its
\* face is not among the active tracked faces and its entry is older than the
\* temporary-exit timeout
Silent(face_id) ==
    /\ \/ face_id \notin DOMAIN tracked_faces'
       \/ tracked_faces'[face_id].status # "active"
    /\ now' - passenger_records[face_id].entry_time > temporary_exit_timeout

\* C19: the status of a record that exists after a cycle differs from its
\* status before the cycle (absent when it did not exist) only by one of the
\* listed transitions, and only when an accepted event of the cycle carries
\* its identity or the silence rule moved it from inside to temporary_exit.
RecordStatusTransitions ==
    [][ \A face_id \in DOMAIN passenger_records' :
            LET old == StatusOf(passenger_records, face_id)
                new == StatusOf(passenger_records', face_id)
            IN  old # new =>
                  /\ <<old, new>> \in ListedTransitions
                  /\ \/ TouchedByAccepted(face_id)
                     \/ /\ old = "inside"
                        /\ new = "temporary_exit"
                        /\ Silent(face_id)
      ]_vars

\* C19 witness: the record of identity 1 went absent -> inside -> outside ->
\* inside by accepted events, the record of identity 2 went absent -> inside by
\* an accepted event and inside -> temporary_exit by the silence rule
RecordStatusTransitionsWitness ==
    /\ DOMAIN passenger_records = {1, 2}
    /\ LoggedTypes(1) = <<"entry", "exit", "entry">>
    /\ passenger_records[1].status = "inside"
    /\ LoggedTypes(2) = <<"entry">>
    /\ passenger_records[2].status = "temporary_exit"

\* the records and the statistics of the frame just processed after its
\* validated events were applied, before the silence rule
AfterEvents ==
    record_loop(1, validated_events', passenger_records,
                <<fraud_stats.unique_passengers_seen,
                  fraud_stats.temporary_exits_handled>>, now')

\* the records of the frame just processed after the silence rule
AfterSilence == silence_rule(AfterEvents[1], tracked_faces', now')

\* C20: the silence rule works on the records as the cycle's events left
\* them; it changes nothing but the status of inside records, to
\* temporary_exit, so the number of records inside or temporary_exit is the
\* same before and after it; the validated events and the statistics of the
\* cycle are those computed before it.
SilenceRuleIsPure ==
    [][ cycles' = cycles + 1 =>
          /\ passenger_records' = cleanup_old_records(AfterSilence, now')
          /\ DOMAIN AfterSilence = DOMAIN AfterEvents[1]
          /\ \A face_id \in DOMAIN AfterSilence :
                \/ AfterSilence[face_id] = AfterEvents[1][face_id]
                \/ /\ AfterEvents[1][face_id].status = "inside"
                   /\ AfterSilence[face_id] =
                         [AfterEvents[1][face_id] EXCEPT !.status = "temporary_exit"]
          /\ get_current_passenger_count(AfterSilence) =
                get_current_passenger_count(AfterEvents[1])
          /\ validated_events' = validate_zone_events(zone_events', face_detections')[1]
          /\ fraud_stats' =
                [fraud_stats EXCEPT
                   !.prevented_double_counts =
                       validate_zone_events(zone_events', face_detections')[2],
                   !.unique_passengers_seen = AfterEvents[2][1],
                   !.temporary_exits_handled = AfterEvents[2][2]]
      ]_vars

\* C20 witness: in the second frame the exit of identity 1 was accepted and
\* applied, and the silence rule moved the record of identity 2, unseen for 31
\* seconds, to temporary_exit; the exit took the count of the records from 2
\* to 1 and the silence rule left it there
SilenceRuleIsPureWitness ==
    /\ cycles = 2
    /\ DOMAIN passenger_records = {1, 2}
    /\ passenger_records[1].status = "outside"
    /\ passenger_records[1].exit_time = now
    /\ passenger_records[2].status = "temporary_exit"
    /\ Len(validated_events) = 1
    /\ validated_events[1].type = "exit"
    /\ get_current_passenger_count(passenger_records) = 1

\* the records removed by the cleanup of the frame just processed
Purged == (DOMAIN AfterSilence) \ (DOMAIN passenger_records')

\* C21: a record is removed only when more than one hour has passed since its
\* most recent entry and since its most recent exit.
CleanupOnlyAfterInactivity ==
    [][ cycles' = cycles + 1 =>
          \A face_id \in Purged :
              /\ AfterSilence[face_id].entry_time # None =>
                    now' - AfterSilence[face_id].entry_time > RecordsKept
              /\ AfterSilence[face_id].exit_time # None =>
                    now' - AfterSilence[face_id].exit_time > RecordsKept
      ]_vars

\* the square of the distance from the person center of an event to the center
\* of the k-th face detection of the frame just processed
FaceDistance2(event, k) ==
    distance2(event.detection.center, face_center(face_detections'[k].bbox))

\* C30: a forwarded event carries the identity of a face detection of the
\* frame that is at most 100 pixels from the person center and no farther than
\* any other face of the frame; it carries no identity when every face of the
\* frame is more than 100 pixels away.
SpatialMatching ==
    [][ cycles' = cycles + 1 =>
          \A j \in 1..Len(validated_events') :
              LET event == validated_events'[j]
                  faces == 1..Len(face_detections')
              IN  IF event_face_id(event) = None
                  THEN \A k \in faces : FaceDistance2(event, k) > 100 * 100
                  ELSE \E k \in faces :
                          /\ face_detections'[k].face_id = event_face_id(event)
                          /\ FaceDistance2(event, k) <= 100 * 100
                          /\ \A l \in faces :
                                FaceDistance2(event, l) >= FaceDistance2(event, k)
      ]_vars

\* C30 witness: two faces are within 100 pixels of the person, the first of the
\* frame at exactly 100 pixels and the second at 40 pixels, and the forwarded
\* event carries the identity of the second
SpatialMatchingWitness ==
    /\ Len(validated_events) = 1
    /\ Len(face_detections) = 2
    /\ face_detections[1].bbox = FaceA.bbox
    /\ face_detections[2].bbox = FaceC.bbox
    /\ validated_events[1].detection.center = <<100, 240>>
    /\ event_face_id(validated_events[1]) = face_detections[2].face_id
    /\ face_detections[1].face_id # face_detections[2].face_id

\* C30 witness: the only face of the frame is a little more than 100 pixels
\* from the person and the event is forwarded without an identity
SpatialMatchingTooFar ==
    /\ Len(validated_events) = 1
    /\ Len(face_detections) = 1
    /\ face_detections[1].bbox = FaceD.bbox
    /\ validated_events[1].detection.center = <<100, 240>>
    /\ event_face_id(validated_events[1]) = None

\* C26: immediately after a reset the passenger count and the entry, exit and
\* overload statistics are 0, no identity is tracked and no PassengerRecord is
\* left.
ResetClearsEverything ==
    [][ (Reset \/ ResetCount) =>
            /\ current_count' = 0
            /\ stats'.total_entries = 0
            /\ stats'.total_exits = 0
            /\ stats'.overload_events = 0
            /\ tracked_faces' = <<>>
            /\ passenger_records' = <<>>
      ]_vars

(***************************************************************************)
(* Claims about the threads                                                *)
(***************************************************************************)
\* C22: whatever the interleaving of the capture loop and the consumers, the
\* buffer never holds more than 10 frames, the capture loop always has a next
\* step, no captured frame is left out of the buffer, and frames are
\* delivered in capture order.
DropOldestBuffer ==
    /\ Len(frame_queue) <= 10
    /\ capture_pc \in {"put", "drop", "reput"} =>
          ENABLED (CapturePut \/ CaptureDrop \/ CaptureReput)
    /\ lost = {}
    /\ \A i \in 1..Len(frame_queue) :
          /\ frame_queue[i] > last_delivered
          /\ \A j \in 1..(i - 1) : frame_queue[j] < frame_queue[i]

\* the positions of the processing thread between the first write of
\* _handle_zone_event (the count) and its last one (the event history)
MidUpdate == { "total", "overload", "last_activity", "append" }

\* C23: no presentation-layer call runs while the processing thread is between
\* the first and the last write of one _handle_zone_event, and only steps of
\* the processing thread change current_count, stats or passenger_events.
SynchronizedSingleWriter ==
    [][ /\ presented' # presented => presented'.at \notin MidUpdate
        /\ counter_vars' # counter_vars => processing_pc' # processing_pc
      ]_vars

\* the callbacks invoked so far for the event with this number, in the order
\* of their invocation
InvokedFor(e) ==
    LET entries == SelectSeq(callback_log, LAMBDA x : x.event = e)
    IN  [k \in 1..Len(entries) |-> entries[k].callback]

\* C25: a turn of the callback loop invokes the next registered callback, for
\* the event being handled, after the event was counted and stored; whether
\* the callback raised or not, the loop goes on with the following callback
\* and the count, the statistics and the history stay as they were; when the
\* loop is over every registered callback has been invoked once for the event,
\* in registration order, and the handler returns to the loop over the events.
CallbackIsolation ==
    [][ ProcCallback =>
          /\ counter_vars' = counter_vars
          /\ IF callback_index <= Len(event_callbacks)
             THEN /\ Len(callback_log') = Len(callback_log) + 1
                  /\ LET x == callback_log'[Len(callback_log')]
                     IN  /\ x.callback = event_callbacks[callback_index]
                         /\ x.event = EventNumber
                         /\ x.stored = EventNumber
                         /\ x.totals = EventNumber
                  /\ InvokedFor(EventNumber) =
                        SubSeq(event_callbacks, 1, callback_index - 1)
                  /\ callback_index' = callback_index + 1
                  /\ processing_pc' = "callbacks"
             ELSE /\ InvokedFor(EventNumber) = event_callbacks
                  /\ callback_log' = callback_log
                  /\ event_index' = event_index + 1
                  /\ processing_pc' \in {"count", "while"}
      ]_vars

\* C25 witness: two callbacks are registered; for the first event the first
\* callback raised and the second was invoked after it; the second event of
\* the cycle was then handled the same way and the count is 2
CallbackIsolationWitness ==
    /\ Len(event_callbacks) = 2
    /\ Len(callback_log) = 4
    /\ callback_log[1].raised
    /\ InvokedFor(1) = event_callbacks
    /\ InvokedFor(2) = event_callbacks
    /\ current_count = 2
    /\ stats.total_entries = 2
    /\ processing_pc = "while"

\* both loops have ended (or were never started)
LoopsExited ==
    /\ capture_pc \in {"idle", "done"}
    /\ processing_pc \in {"idle", "done"}

\* C24: once stop() is called both loops eventually end; when the processing
\* loop has ended every zone event it received has been counted and stored;
\* from then on the count does not change, and get_current_count and
\* get_statistics called after that return it.
Cancellation ==
    /\ (stop_pc # "idle") ~> LoopsExited
    /\ [](processing_pc = "done" =>
            /\ stats.total_entries + stats.total_exits = emitted
            /\ Len(passenger_events) = emitted)
    /\ []((processing_pc = "done" /\ presented.at = "done") =>
            presented.result = current_count)
    /\ [][processing_pc = "done" => current_count' = current_count]_vars

\* C24 witness: stop() has returned, both loops have ended, the two zone
\* events of the last cycle were counted, and get_statistics called after the
\* end returned the count 2
CancellationWitness ==
    /\ stop_pc = "done"
    /\ capture_pc = "done"
    /\ processing_pc = "done"
    /\ emitted = 2
    /\ current_count = 2
    /\ presented = [call |-> "get_statistics", at |-> "done", result |-> 2]

\* stop() was called while the first of the two zone events of a cycle was
\* about to be counted
CancellationInFlight ==
    /\ stop_pc # "idle"
    /\ ~is_running
    /\ processing_pc = "count"
    /\ event_index = 1
    /\ Len(zone_events) = 2

(***************************************************************************)
(* Further claims about Trip                                               *)
(***************************************************************************)
\* the largest count supplied so far, 0 when none was or all were negative
LargestSupplied ==
    IF \A i \in 1..Len(calls) : calls[i].n <= 0 THEN 0
    ELSE CHOOSE n \in { calls[i].n : i \in 1..Len(calls) } :
            \A i \in 1..Len(calls) : calls[i].n <= n

\* C32: after any sequence of update_passenger_count calls the current count
\* is the last value supplied and the maximum is the largest value supplied so
\* far, at least 0; so the maximum is never below the current count, and it
\* never decreases.
CurrentAndMaximumCount ==
    /\ [](/\ Len(calls) > 0 =>
                trip.current_passenger_count = calls[Len(calls)].n
           /\ trip.max_passenger_count = LargestSupplied
           /\ trip.max_passenger_count >= trip.current_passenger_count)
    /\ [][trip'.max_passenger_count >= trip.max_passenger_count]_vars

\* C32 witness: the counts 5, 16 and 10 were supplied: the current count is 10
\* and the maximum 16
CurrentAndMaximumCountWitness ==
    /\ SuppliedCounts = <<5, 16, 10>>
    /\ trip.current_passenger_count = 10
    /\ trip.max_passenger_count = 16

(***************************************************************************)
(* Further claims about FaceTracker                                        *)
(***************************************************************************)
\* the identities that are lost before the step
LostIds == { id \in DOMAIN tracked_faces : tracked_faces[id].status = "lost" }

\* C37: an identity that is lost is not matched by any later detection and is
\* not changed until it is removed; a detection is given either an identity
\* that was active or an id that no tracked identity carries.
LostNeverMatched ==
    [][ /\ \A id \in LostIds :
              id \in DOMAIN tracked_faces' => tracked_faces'[id] = tracked_faces[id]
        /\ cycles' = cycles + 1 =>
              \A i \in 1..Len(face_detections') :
                  /\ face_detections'[i].face_id \notin LostIds
                  /\ \/ face_detections'[i].face_id \notin DOMAIN tracked_faces
                     \/ tracked_faces[face_detections'[i].face_id].status = "active"
      ]_vars

\* C37 witness: identity 1 is lost; the face that came back with the same
\* encoding was given the new identity 2
LostNeverMatchedWitness ==
    /\ DOMAIN tracked_faces = {1, 2}
    /\ tracked_faces[1].status = "lost"
    /\ tracked_faces[2].status = "active"
    /\ tracked_faces[2].first_seen = now
    /\ tracked_faces[2].encodings = tracked_faces[1].encodings
    /\ Len(face_detections) = 1
    /\ face_detections[1].face_id = 2

(***************************************************************************)
(* Further claims about AntiFraudManager                                   *)
(***************************************************************************)
\* the identity the i-th zone event of the cycle was matched to (None without a match)
MatchedIdentity(events, faces, i) ==
    LET matched_face == match_zone_event_to_face(events[i], faces)
    IN  IF matched_face = 0 THEN None ELSE faces[matched_face].face_id

\* the validated events of the given type that carry the identity
AcceptedFor(validated, face_id, event_type) ==
    { k \in 1..Len(validated) :
        /\ validated[k].type = event_type
        /\ event_face_id(validated[k]) = face_id }

\* C34: of two entry events of one cycle that are matched to the same identity
\* at most one is accepted, and the other one is counted in
\* prevented_double_counts.
SameCycleLegitimacy ==
    [][ cycles' = cycles + 1 =>
          \A i, j \in 1..Len(zone_events') :
              ( /\ i < j
                /\ zone_events'[i].type = "entry"
                /\ zone_events'[j].type = "entry"
                /\ MatchedIdentity(zone_events', face_detections', i) # None
                /\ MatchedIdentity(zone_events', face_detections', i)
                      = MatchedIdentity(zone_events', face_detections', j) )
              => /\ Cardinality(AcceptedFor(validated_events',
                        MatchedIdentity(zone_events', face_detections', i), "entry")) <= 1
                 /\ fraud_stats'.prevented_double_counts
                      >= fraud_stats.prevented_double_counts + 1
      ]_vars

\* C34: the state after the first frame, in which face A was seen and two entry
\* events near A were both accepted for identity 1
SameCycleBothAccepted ==
    /\ cycles = 1
    /\ Len(zone_events) = 2
    /\ Cardinality(AcceptedFor(validated_events, 1, "entry")) = 2
    /\ fraud_stats.prevented_double_counts = 0

(***************************************************************************)
(* Further claims about PassengerCounter                                   *)
(***************************************************************************)
\* the zone events handled so far when the counter was never reset
Handled == stats.total_entries + stats.total_exits

\* C33: the overload_events statistic grows by one when a handled event takes
\* the count from at most max_capacity to more than max_capacity, and does not
\* grow for any other handled event.
EdgeTriggeredOverloadStatistic ==
    [][ stats'.total_entries + stats'.total_exits = Handled + 1 =>
          stats'.overload_events =
              stats.overload_events
                + (IF current_count <= counter_max_capacity
                      /\ current_count' > counter_max_capacity THEN 1 ELSE 0)
      ]_vars

\* C33: sixteen entries were handled and overload_events is 2
EdgeTriggeredOverloadTwice ==
    /\ current_count = counter_max_capacity + 2
    /\ stats.total_exits = 0
    /\ stats.overload_events = 2

\* C39: between events total_entries - total_exits <= current_count <=
\* total_entries, and the history holds at most 100 events, the most recent
\* ones in order; a handled event leaves the difference between the count and
\* total_entries - total_exits as it was, except an exit handled at count 0,
\* which raises it by one.
CounterAccounting ==
    /\ [](/\ stats.total_entries - stats.total_exits <= current_count
           /\ current_count <= stats.total_entries
           /\ Len(passenger_events) <= 100
           /\ Len(passenger_events) = (IF Handled < 100 THEN Handled ELSE 100)
           /\ \A k \in 1..Len(passenger_events) :
                  passenger_events[k].timestamp = now - Len(passenger_events) + k)
    /\ [][ stats'.total_entries + stats'.total_exits = Handled + 1 =>
             current_count' - (stats'.total_entries - stats'.total_exits)
               = current_count - (stats.total_entries - stats.total_exits)
                   + (IF stats'.total_exits # stats.total_exits /\ current_count = 0
                      THEN 1 ELSE 0)
         ]_vars

\* C39 witness: 102 events were handled, one of them an exit at count 0, and
\* the history holds the last 100
CounterAccountingWitness ==
    /\ Handled = 102
    /\ stats.total_exits = 1
    /\ current_count = stats.total_entries
    /\ Len(passenger_events) = 100
    /\ passenger_events[1].timestamp = 3

(***************************************************************************)
(* Further claims about the threads                                        *)
(***************************************************************************)
\* C38: the buffer holds only frames that were read: frame_count counts no
\* failed read, no frame in frame_queue is None, and get_frame returns no None
\* taken from the queue.
OnlyReadFramesBuffered ==
    /\ none_frames = {}
    /\ \A i \in 1..Len(frame_queue) : frame_queue[i] \notin none_frames
    /\ last_delivered \notin none_frames

\* C38: the first read failed, the reconnection worked, and get_frame returned
\* the None that was put in the queue as frame 1
NoneFrameDelivered ==
    /\ 1 \in none_frames
    /\ frame_count = 1
    /\ last_delivered = 1

\* the frames the processing loop got from get_frame so far, when it is the
\* only consumer and the queue never was full: the numbers up to the last one
\* delivered, without those whose value is None
FramesDequeued == (1..last_delivered) \ none_frames

\* C31: the frame counter is the number of frames the loop dequeued; a dequeued
\* frame goes to the detector exactly when its ordinal is a multiple of 3, and
\* the detector runs for no other reason; a get_frame that returns None leaves
\* the frame counter, the count, the statistics, the event history and the
\* zone tracks as they were.
ProcessingCadence ==
    /\ [](frame_counter = Cardinality(FramesDequeued))
    /\ [][ (processing_pc = "get_frame" /\ processing_pc' # "get_frame") =>
             IF last_delivered' = last_delivered \/ last_delivered' \in none_frames
             THEN /\ frame_counter' = frame_counter
                  /\ processing_pc' = "while"
                  /\ UNCHANGED <<counter_vars, person_zones, zone_events>>
             ELSE /\ frame_counter' = frame_counter + 1
                  /\ processing_pc' \in {"while", "detect"}
                  /\ processing_pc' = "detect"
                        <=> Cardinality((1..last_delivered') \ none_frames) % 3 = 0
                  /\ UNCHANGED <<counter_vars, person_zones, zone_events>>
         ]_vars
    /\ [][ (processing_pc' = "detect" \/ person_zones' # person_zones) =>
             /\ processing_pc \in {"get_frame", "detect"}
             /\ processing_pc = "detect" => frame_counter % 3 = 0
         ]_vars

\* C31 witness: four values were dequeued, one of them None; the third frame
\* is at the detector
ProcessingCadenceWitness ==
    /\ processing_pc = "detect"
    /\ last_delivered = 4
    /\ Cardinality(none_frames \cap (1..4)) = 1
    /\ frame_counter = 3

\* the positions of the processing thread inside _handle_zone_event, before
\* the callbacks
HandlerPositions == { "count", "total", "overload", "last_activity", "append", "trim" }

\* current_count, total_entries, total_exits and the event history
CountingState(c) ==
    <<c.current_count, c.stats.total_entries, c.stats.total_exits, c.passenger_events>>

\* C35: when reset_count() ran while the first zone event was being handled,
\* the count, the totals and the history after the handler are those of the
\* handler followed by the reset (all cleared) or those of the reset followed
\* by the handler (the event counted once from zero).
ResetSerializable ==
    ( /\ processing_pc = "callbacks"
      /\ EventNumber = 1
      /\ presented.call = "reset_count"
      /\ presented.at \in HandlerPositions )
    => LET cleared == [ current_count |-> 0,
                        stats |-> [stats EXCEPT !.total_entries = 0,
                                                !.total_exits = 0,
                                                !.overload_events = 0],
                        passenger_events |-> <<>> ]
           here == [ current_count |-> current_count, stats |-> stats,
                     passenger_events |-> passenger_events ]
       IN  CountingState(here) \in
              { CountingState(cleared),
                CountingState(handle_zone_event(cleared, zone_events[event_index], now)) }

\* C35: reset_count() ran between the two writes of an entry: the count is 0,
\* total_entries is 1 and the history holds the event
ResetTornByHandler ==
    /\ processing_pc = "callbacks"
    /\ EventNumber = 1
    /\ presented.call = "reset_count"
    /\ presented.at = "total"
    /\ current_count = 0
    /\ stats.total_entries = 1
    /\ Len(passenger_events) = 1

\* the processing threads that have not left their loop
RunningLoops == { i \in 1..Len(processing_threads) : processing_threads[i] # "done" }

\* C36: at most one processing loop runs at any time, whatever start() and
\* stop() calls were made; start() while running creates no thread.
AtMostOneProcessingLoop ==
    /\ [](Cardinality(RunningLoops) <= 1)
    /\ [][is_running => processing_threads' = processing_threads
                          \/ Len(processing_threads') = Len(processing_threads)]_vars

\* C36: the thread of the first start() is inside its loop after stop()
\* returned and a second start() created a second thread
TwoProcessingLoops ==
    /\ Len(processing_threads) = 2
    /\ processing_threads[1] = "body"
    /\ processing_threads[2] = "body"
    /\ is_running

=============================================================================
